---- MODULE Spec2Model ----
(***************************************************************************)
(* A model of python_trainer:                                              *)
(*   core/validator.py  the strict analyzer, the restricted interpreter    *)
(*                      and the check evaluator;                           *)
(*   core/runner.py     the coarse analyzer and the process executor;      *)
(*   core/progress.py   attempts, completion and the allowed modules;      *)
(*   core/exercises.py  the catalog and its navigation;                    *)
(*   ui/cli.py          the exercise the command-line loop shows;          *)
(*   ui/vscode_app.py   run_code, check_code, the study hint and the       *)
(*                      pyright language-server client.                    *)
(*                                                                         *)
(* The specifications of the module:                                       *)
(*   SpecEval   calls _run_checks_with_exercise on drawn checks, bindings  *)
(*              and captured output (twice in a row on the same objects);  *)
(*   Spec       calls validate_user_code on a drawn exercise and code, and *)
(*              again with the same exercise object and code;              *)
(*   SpecRun    calls run_user_code on drawn code, child behaviour and     *)
(*              host conditions;                                           *)
(*   SpecResolve, SpecCompare  call _run_checks_with_exercise with one     *)
(*              check, on bindings of a declared name and its aliases,     *)
(*              and on sequences to compare with list_close;               *)
(*   SpecAnalyze  calls _check_code_is_safe on drawn syntax trees;         *)
(*   SpecApi    calls VscodeApi.run_code and check_code on drawn modes,    *)
(*              run results and validations;                               *)
(*   SpecProgress  records attempts, moves the pointer, resets modules and *)
(*              takes turns of the command-line loop on drawn catalogs;    *)
(*   SpecNavigate  follows next_position from the first exercise;          *)
(*   SpecLsp    interleaves the calls of complete, hover and close with    *)
(*              the reader threads and the language-server processes.      *)
(*                                                                         *)
(* Python values are records [k, n, items, raises]:                        *)
(*   k = "int"   an integer n                                              *)
(*   k = "text"  a str (n names its content)                               *)
(*   k = "list"  a list whose elements are items                           *)
(*   k = "tuple" an iterable that is not a list (tuple, range)             *)
(*   k = "map"   a map object: items are the elements it has not yet       *)
(*               produced, raises says that producing the next one raises  *)
(* A sequence element is [num, v]: a number v, counted in units of 1e-6,   *)
(* or (num = FALSE) a value float() cannot convert.  Text that is searched *)
(* for substrings is a sequence of characters.  Distinct names are bound   *)
(* to distinct objects.                                                    *)
(***************************************************************************)
EXTENDS Integers, Sequences, FiniteSets, TLC

VARIABLES
    checks,         \* evaluator: the check list it is called with
    local_vars,     \* evaluator: the binding set (a dict object, kept between calls)
    captured_out,   \* evaluator: the captured output text
    accepted_vars,  \* evaluator: exercise["accepted_vars"]
    evalResults,    \* evaluator: what each call so far returned (or raised)
    exercise,       \* grading: the exercise descriptor object
    code,           \* grading: the submitted source
    gradeResults,   \* grading: what each validate_user_code call so far did
    streams,        \* grading: the host's sys.stdout and sys.stderr
    run,            \* process executor: the call's inputs and host conditions
    runResult,      \* process executor: what run_user_code did
    tree,           \* strict analyzer: the syntax tree ast.parse returned
    analysis,       \* strict analyzer: what each _check_code_is_safe call did
    apiReplies,     \* VscodeApi: what each run_code or check_code call did
    catalog,        \* progress: the modules get_modules() returns
    progress,       \* progress: the content of the progress file
    recorded,       \* progress: per record, the outcomes recorded since it was made
    position,       \* navigation: what the last next_position call returned
    visited,        \* navigation: the positions gone through, in order
    lsp,            \* LSP client: the fields of the _PyrightLspClient object
    waiters,        \* LSP client: the queue of each request, by request id
    threads,        \* LSP client: the call stack of each caller thread
    readers,        \* LSP client: the reader threads started, in order
    servers,        \* LSP client: the language-server processes started, in order
    requests        \* LSP client: how each request that was given an id ended

vars == <<checks, local_vars, captured_out, accepted_vars, evalResults,
          exercise, code, gradeResults, streams, run, runResult,
          tree, analysis, apiReplies, catalog, progress, recorded,
          position, visited, lsp, waiters, threads, readers, servers, requests>>
evalVars == <<checks, local_vars, captured_out, accepted_vars, evalResults>>
gradeVars == <<exercise, code, gradeResults, streams>>
runVars == <<run, runResult>>
analyzeVars == <<tree, analysis>>
apiVars == <<apiReplies>>
progressVars == <<catalog, progress, recorded>>
navVars == <<position, visited>>
lspVars == <<lsp, waiters, threads, readers, servers, requests>>
appVars == <<analyzeVars, apiVars, progressVars, navVars, lspVars>>

(* ---------------- a component no call has been made to ---------------- *)
NoCode == [lines |-> <<>>, parse |-> "ok", stmts |-> <<>>]
NoExercise == [setup |-> <<>>, checks |-> <<>>, accepted_vars |-> <<>>, custom |-> "none"]
NoRun == [phase |-> "idle"]

\* sys.stdout and sys.stderr as the host has them, and what has been written to
\* what they pointed to outside a redirection
HostStreams == [stdout |-> "host_stdout", stderr |-> "host_stderr", written |-> <<>>]
GradeIdle ==
    /\ exercise = NoExercise /\ code = NoCode /\ gradeResults = <<>>
    /\ streams = HostStreams
RunIdle == run = NoRun /\ runResult = NoRun
EvalIdle ==
    /\ checks = <<>> /\ local_vars = <<>> /\ captured_out = <<>>
    /\ accepted_vars = <<>> /\ evalResults = <<>>

NoTree == [kind |-> "Module", name |-> "", kids |-> <<>>]
AnalyzeIdle == tree = NoTree /\ analysis = <<>>
ApiIdle == apiReplies = <<>>
Position(m, l, e) == [module_id |-> m, lesson_id |-> l, exercise_id |-> e]
\* progress._empty_data().  Ids are written as index paths: <<1>> is "module1", <<1, 1>> is "m1_l1" and
\* <<1, 1, 1>> is "m1_l1_e1".
empty_data == [exercises |-> <<>>, current |-> Position(<<1>>, <<1, 1>>, <<1, 1, 1>>)]
ProgressIdle == catalog = <<>> /\ progress = empty_data /\ recorded = <<>>
NavIdle == position = [kind |-> "None", pos |-> <<>>] /\ visited = <<>>
\* _PyrightLspClient.__init__: no process (0), no pending request
NewClient ==
    [process |-> 0, pending |-> {}, next_id |-> 1, document_opened |-> FALSE,
     document_version |-> 0]
LspIdle ==
    /\ lsp = NewClient /\ waiters = <<>> /\ threads = <<>>
    /\ readers = <<>> /\ servers = <<>> /\ requests = <<>>
AppIdle == AnalyzeIdle /\ ApiIdle /\ ProgressIdle /\ NavIdle /\ LspIdle

(* ------------------------------ bounds -------------------------------- *)
MaxChecks == 2
MaxStmts == 2
MaxNodes == 2
MaxLines == 2
MaxAlts == 2
MaxItems == 2
MaxDepth == 3
MaxModules == 3
MaxLessons == 2
MaxExercises == 2
MaxAttempts == 3
MaxCallers == 1
MaxCalls == 2
MaxProcesses == 2

(* ------------------------------ values -------------------------------- *)
IntVal(n) == [k |-> "int", n |-> n, items |-> <<>>, raises |-> FALSE]
TextVal(n) == [k |-> "text", n |-> n, items |-> <<>>, raises |-> FALSE]
ListVal(items) == [k |-> "list", n |-> 0, items |-> items, raises |-> FALSE]
TupleVal(items) == [k |-> "tuple", n |-> 0, items |-> items, raises |-> FALSE]
MapVal(items, raises) == [k |-> "map", n |-> 0, items |-> items, raises |-> raises]
NoVal == [k |-> "none", n |-> 0, items |-> <<>>, raises |-> FALSE]
Num(v) == [num |-> TRUE, v |-> v]
NotNum == [num |-> FALSE, v |-> 0]

Min(S) == CHOOSE x \in S : \A y \in S : x <= y
Abs(x) == IF x < 0 THEN -x ELSE x
SeqsUpTo(S, n) == UNION {[1..m -> S] : m \in 0..n}

\* expected in captured_out, for str: some window of hay equals needle
IsSubstring(needle, hay) ==
    \E i \in 0..(Len(hay) - Len(needle)) :
        \A j \in 1..Len(needle) : hay[i + j] = needle[j]

\* Python's != between a bound value and an expected literal: a map object
\* equals no literal, other values compare structurally
PyNotEqual(a, b) == a.k = "map" \/ b.k = "map" \/ a # b

Msg(kind, var, base, exp, a, b) ==
    [kind |-> kind, var |-> var, base |-> base, exp |-> exp, a |-> a, b |-> b]
Note(kind, var) == [kind |-> kind, var |-> var]

(* --------------------------- check evaluator -------------------------- *)
\* math.isclose(float(a), float(b), rel_tol=0, abs_tol=1e-6), in units of 1e-6
AbsTol == 1
\* a comparison with a relative tolerance next to the absolute one
is_close_rel(a, b) ==
    \/ Abs(a - b) <= AbsTol
    \/ Abs(a - b) <= (IF Abs(a) >= Abs(b) THEN Abs(a) ELSE Abs(b)) \div 500000
is_close(a, b) == Abs(a - b) <= AbsTol

\* a lookup that takes the last bound alias instead of the first
select_var_last(var, lv, alts) ==
    IF var \in DOMAIN lv
    THEN [name |-> var, found |-> TRUE, notes |-> <<>>]
    ELSE LET hits == {i \in 1..Len(alts) : alts[i] \in DOMAIN lv} IN
         IF hits # {}
         THEN [name |-> alts[CHOOSE i \in hits : \A j \in hits : j <= i],
               found |-> TRUE, notes |-> <<>>]
         ELSE [name |-> var, found |-> FALSE,
               notes |-> IF alts # <<>> THEN <<Note("accepted_vars", var)>> ELSE <<>>]

select_var(var, lv, alts) ==
    IF var \in DOMAIN lv
    THEN [name |-> var, found |-> TRUE, notes |-> <<>>]
    ELSE LET hits == {i \in 1..Len(alts) : alts[i] \in DOMAIN lv} IN
         IF hits # {}
         THEN [name |-> alts[Min(hits)], found |-> TRUE, notes |-> <<>>]
         ELSE [name |-> var, found |-> FALSE,
               notes |-> IF alts # <<>> THEN <<Note("accepted_vars", var)>> ELSE <<>>]

\* a conversion that finds the map object already used up
as_list_consumed(value) ==
    CASE value.k = "text" ->
            [raised |-> FALSE, got |-> value, warnings |-> <<>>, after |-> value]
      [] value.k = "map" ->
            [raised |-> FALSE, got |-> ListVal(<<>>),
             warnings |-> <<Note("map_converted", "")>>,
             after |-> [value EXCEPT !.items = <<>>]]
      [] value.k = "tuple" ->
            [raised |-> FALSE, got |-> ListVal(value.items), warnings |-> <<>>,
             after |-> value]
      [] OTHER ->
            [raised |-> FALSE, got |-> value, warnings |-> <<>>, after |-> value]

\* got: the converted value; after: the object as the call leaves it
as_list(value) ==
    CASE value.k = "text" ->
            [raised |-> FALSE, got |-> value, warnings |-> <<>>, after |-> value]
      [] value.k = "map" ->
            IF value.raises /\ value.items # <<>>
            THEN [raised |-> TRUE, got |-> value,
                  warnings |-> <<Note("map_converted", "")>>,
                  after |-> [value EXCEPT !.items = Tail(@)]]
            ELSE [raised |-> FALSE, got |-> ListVal(value.items),
                  warnings |-> <<Note("map_converted", "")>>,
                  after |-> [value EXCEPT !.items = <<>>]]
      [] value.k = "tuple" ->
            [raised |-> FALSE, got |-> ListVal(value.items), warnings |-> <<>>,
             after |-> value]
      [] OTHER ->
            [raised |-> FALSE, got |-> value, warnings |-> <<>>, after |-> value]

\* the zip loop of _list_close from pair i on: "ok", "mismatch", or "raise"
\* when float() meets an element it cannot convert
RECURSIVE pairs_close(_, _, _)
pairs_close(items, expected, i) ==
    IF i > Len(items) \/ i > Len(expected) THEN "ok"
    ELSE IF ~items[i].num \/ ~expected[i].num THEN "raise"
    ELSE IF ~is_close(items[i].v, expected[i].v) THEN "mismatch"
    ELSE pairs_close(items, expected, i + 1)

\* a comparison that goes to the pairs without looking at the lengths
list_close_no_length(value, expected) ==
    LET c == as_list(value)
        R(raised, ok, kind, gotlen, compared) ==
            [raised |-> raised, ok |-> ok, kind |-> kind, warnings |-> c.warnings,
             expected_len |-> Len(expected), got_len |-> gotlen,
             compared |-> compared, after |-> c.after]
    IN  IF c.raised THEN R(TRUE, FALSE, "exception", 0, FALSE)
        ELSE IF c.got.k = "text" THEN R(FALSE, FALSE, "is_text", 0, FALSE)
        ELSE IF c.got.k # "list" THEN R(FALSE, FALSE, "not_iterable", 0, FALSE)
        ELSE LET p == pairs_close(c.got.items, expected, 1) IN
             CASE p = "raise" -> R(TRUE, FALSE, "exception", Len(expected), TRUE)
               [] p = "mismatch" -> R(FALSE, FALSE, "tolerance", Len(expected), TRUE)
               [] OTHER -> R(FALSE, TRUE, "correcto", Len(expected), TRUE)

list_close(value, expected) ==
    LET c == as_list(value)
        R(raised, ok, kind, gotlen, compared) ==
            [raised |-> raised, ok |-> ok, kind |-> kind, warnings |-> c.warnings,
             expected_len |-> Len(expected), got_len |-> gotlen,
             compared |-> compared, after |-> c.after]
    IN  IF c.raised THEN R(TRUE, FALSE, "exception", 0, FALSE)
        ELSE IF c.got.k = "text" THEN R(FALSE, FALSE, "is_text", 0, FALSE)
        ELSE IF c.got.k # "list" THEN R(FALSE, FALSE, "not_iterable", 0, FALSE)
        ELSE IF Len(c.got.items) # Len(expected)
             THEN R(FALSE, FALSE, "length", Len(c.got.items), FALSE)
        ELSE LET p == pairs_close(c.got.items, expected, 1) IN
             CASE p = "raise" -> R(TRUE, FALSE, "exception", Len(expected), TRUE)
               [] p = "mismatch" -> R(FALSE, FALSE, "tolerance", Len(expected), TRUE)
               [] OTHER -> R(FALSE, TRUE, "correcto", Len(expected), TRUE)

\* a pre-scan that looks at the first check only
output_has_expected_first(cs, out) ==
    /\ cs # <<>>
    /\ cs[1].type = "output_contains"
    /\ cs[1].text # <<>>
    /\ IsSubstring(cs[1].text, out)

\* the pre-scan of the output_contains checks (lines 157-162)
output_has_expected(cs, out) ==
    \E i \in 1..Len(cs) :
        /\ cs[i].type = "output_contains"
        /\ cs[i].text # <<>>
        /\ IsSubstring(cs[i].text, out)

\* one iteration of the loop over the checks (lines 165-210)
check_one(check, lv, out, alts, flag) ==
    LET R(raised, ok, msg, notes, lv2, resolved, compared) ==
            [raised |-> raised, ok |-> ok, msg |-> msg, notes |-> notes, lv |-> lv2,
             resolved |-> resolved, compared |-> compared]
        sel == select_var(check.var, lv, alts)
        missing == Msg(IF flag THEN "store_under_name" ELSE "not_created",
                       sel.name, "", NoVal, 0, 0)
    IN  CASE check.type = "equals" ->
                IF ~sel.found THEN R(FALSE, FALSE, missing, sel.notes, lv, "", FALSE)
                ELSE IF PyNotEqual(lv[sel.name], check.expected)
                     THEN R(FALSE, FALSE,
                            Msg("expected_value", sel.name, check.message, check.expected, 0, 0),
                            sel.notes, lv, sel.name, FALSE)
                ELSE R(FALSE, TRUE, Msg("pass", "", "", NoVal, 0, 0), sel.notes, lv,
                       sel.name, FALSE)
          [] check.type = "list_close" ->
                IF ~sel.found THEN R(FALSE, FALSE, missing, sel.notes, lv, "", FALSE)
                ELSE LET lc == list_close(lv[sel.name], check.expected.items)
                         notes == sel.notes
                                  \o (IF lv[sel.name].k = "map"
                                      THEN <<Note("map_note", "")>> ELSE <<>>)
                                  \o lc.warnings
                         lv2 == [lv EXCEPT ![sel.name] = lc.after]
                     IN  IF lc.raised
                         THEN R(TRUE, FALSE, Msg("exception", sel.name, "", NoVal, 0, 0),
                                notes, lv2, sel.name, lc.compared)
                         ELSE IF ~lc.ok
                         THEN R(FALSE, FALSE,
                                Msg(lc.kind, sel.name, check.summary, NoVal,
                                    lc.expected_len, lc.got_len),
                                notes, lv2, sel.name, lc.compared)
                         ELSE R(FALSE, TRUE, Msg("pass", "", "", NoVal, 0, 0), notes, lv2,
                                sel.name, lc.compared)
          [] check.type = "output_contains" ->
                IF ~IsSubstring(check.text, out)
                THEN R(FALSE, FALSE,
                       Msg("output_must_contain", "", check.message, NoVal, 0, 0),
                       <<>>, lv, "", FALSE)
                ELSE R(FALSE, TRUE, Msg("pass", "", "", NoVal, 0, 0), <<>>, lv, "", FALSE)
          [] OTHER ->
                R(FALSE, FALSE, Msg("unsupported", "", "", NoVal, 0, 0), <<>>, lv, "", FALSE)

\* the state the loop carries: the bindings, the notes, the iterations that ran,
\* and how it ended ("running", "failed", "raised")
LoopStart(lv) ==
    [lv |-> lv, notes |-> <<>>, trace |-> <<>>, ended |-> "running",
     message |-> Msg("correcto", "", "", NoVal, 0, 0)]

\* iteration i of the loop over the checks
loop_step(i, cs, out, alts, flag, st) ==
    LET c == check_one(cs[i], st.lv, out, alts, flag) IN
    [lv |-> c.lv,
     notes |-> st.notes \o c.notes,
     trace |-> Append(st.trace,
                      [idx |-> i, ok |-> c.ok, raised |-> c.raised, msg |-> c.msg,
                       resolved |-> c.resolved, compared |-> c.compared, pre |-> st.lv]),
     ended |-> IF c.raised THEN "raised" ELSE IF ~c.ok THEN "failed" ELSE "running",
     message |-> IF c.raised \/ ~c.ok THEN c.msg ELSE st.message]

\* a loop that goes on after a failing check
RECURSIVE run_checks_from_all(_, _, _, _, _, _)
run_checks_from_all(i, cs, out, alts, flag, st) ==
    IF i > Len(cs) THEN st
    ELSE run_checks_from_all(i + 1, cs, out, alts, flag,
                             loop_step(i, cs, out, alts, flag, st))

\* the loop from check i on: a return leaves it at the first check that fails
RECURSIVE run_checks_from(_, _, _, _, _, _)
run_checks_from(i, cs, out, alts, flag, st) ==
    IF i > Len(cs) \/ st.ended # "running" THEN st
    ELSE run_checks_from(i + 1, cs, out, alts, flag,
                         loop_step(i, cs, out, alts, flag, st))

\* what the evaluator hands back once the loop has ended in state st: a raised
\* exception, or (ok, message, notes); lv is the binding set as the call leaves it
loop_result(st) ==
    [raised |-> st.ended = "raised", ok |-> st.ended = "running", message |-> st.message,
     notes |-> st.notes, lv |-> st.lv, trace |-> st.trace]

run_checks_with_exercise(cs, lv, out, alts) ==
    loop_result(run_checks_from(1, cs, out, alts, output_has_expected(cs, out),
                                LoopStart(lv)))

(* ------------------------- strict analyzer ---------------------------- *)
\* A source is [lines, parse, stmts]: its lines, each named after its text (see
\* LineText); what ast.parse does with it ("ok", or "syntax" for a SyntaxError);
\* and its statements.
\* A statement is [op, var, val, text].
Stmt(op, var, val, text) == [op |-> op, var |-> var, val |-> val, text |-> text]

\* the characters of a line: "x" is any character that is not whitespace
LineText(line) ==
    CASE line = "clean" -> <<"x">>
      [] line = "tab" -> <<"\t", "x">>
      [] line = "trail" -> <<"x", " ">>
      [] line = "tab_trail" -> <<" ", "\t", "x", " ">>
      [] line = "inner_tab" -> <<"x", "\t", "x">>
      [] line = "blank" -> <<" ">>
      [] OTHER -> <<>>

\* lines 125-130 on one line: the issue found and its column
lint_line(text) ==
    LET body == {i \in 1..Len(text) : text[i] \notin {"\t", " "}}
        leading == IF body = {} THEN Len(text) ELSE Min(body) - 1
        tabs == {i \in 1..leading : text[i] = "\t"}
    IN  IF tabs # {} THEN [kind |-> "tabs", col |-> Min(tabs)]
        ELSE IF text # <<>> /\ text[Len(text)] \in {"\t", " "}
             THEN [kind |-> "trailing_spaces", col |-> Len(text)]
        ELSE [kind |-> "", col |-> 0]

lint_whitespace(c) ==
    LET bad == {i \in 1..Len(c.lines) : lint_line(LineText(c.lines[i])).kind # ""} IN
    IF bad = {} THEN [ok |-> TRUE, kind |-> "", line |-> 0, col |-> 0]
    ELSE [ok |-> FALSE,
          kind |-> lint_line(LineText(c.lines[Min(bad)])).kind,
          line |-> Min(bad),
          col |-> lint_line(LineText(c.lines[Min(bad)])).col]

\* the depth at which ast.walk, which goes breadth first, meets the node of a
\* statement that the analyzer rejects (0: the statement has no such node)
NodeDepth(stmt) ==
    CASE stmt.op \in {"import", "global"} -> 1
      [] stmt.op \in {"dunder_name", "dunder_attr", "banned_call"} -> 2
      [] OTHER -> 0
\* statement i's rejected node comes before statement j's in the walk
WalkBefore(c, i, j) ==
    \/ NodeDepth(c.stmts[i]) < NodeDepth(c.stmts[j])
    \/ NodeDepth(c.stmts[i]) = NodeDepth(c.stmts[j]) /\ i <= j

\* an analyzer whose walk lets import statements through
check_code_is_safe_lax(c) ==
    LET bad == {i \in 1..Len(c.stmts) :
                    NodeDepth(c.stmts[i]) > 0 /\ c.stmts[i].op # "import"} IN
    IF c.parse = "syntax" THEN [verdict |-> "syntax", rule |-> "syntax"]
    ELSE IF bad = {} THEN [verdict |-> "ok", rule |-> ""]
    ELSE [verdict |-> "violation",
          rule |-> c.stmts[CHOOSE i \in bad : \A j \in bad : WalkBefore(c, i, j)].op]

\* "ok", or the ValidationError raised: a syntax error or the rule violated
check_code_is_safe(c) ==
    LET bad == {i \in 1..Len(c.stmts) : NodeDepth(c.stmts[i]) > 0} IN
    IF c.parse = "syntax" THEN [verdict |-> "syntax", rule |-> "syntax"]
    ELSE IF bad = {} THEN [verdict |-> "ok", rule |-> ""]
    ELSE [verdict |-> "violation",
          rule |-> c.stmts[CHOOSE i \in bad : \A j \in bad : WalkBefore(c, i, j)].op]

(* ----------------------- restricted interpreter ----------------------- *)
\* The scope of exec(): locals, the names of locals still bound to the object the
\* exercise's setup holds (locals_dict[key] = value shares it), the setup objects,
\* the captured output, and the exception that ended the run ("" for none).
Bind(f, name, val) == [x \in DOMAIN f \cup {name} |-> IF x = name THEN val ELSE f[x]]
SeqLen(value) == IF value.k = "text" THEN value.n ELSE Len(value.items)

exec_stmt(stmt, st) ==
    CASE stmt.op = "assign" ->
            [st EXCEPT !.locals = Bind(st.locals, stmt.var, stmt.val),
                       !.shared = @ \ {stmt.var}]
      [] stmt.op = "print" ->
            [st EXCEPT !.out = @ \o stmt.text \o <<"\n">>]
      [] stmt.op = "raise" ->
            [st EXCEPT !.fault = "ZeroDivisionError"]
      [] stmt.op = "append" ->
            IF stmt.var \notin DOMAIN st.locals THEN [st EXCEPT !.fault = "NameError"]
            ELSE IF st.locals[stmt.var].k # "list"
                 THEN [st EXCEPT !.fault = "AttributeError"]
            ELSE LET grown == [st.locals[stmt.var] EXCEPT !.items = Append(@, stmt.val)] IN
                 [st EXCEPT !.locals = Bind(st.locals, stmt.var, grown),
                            !.setup = IF stmt.var \in st.shared
                                      THEN Bind(st.setup, stmt.var, grown) ELSE @]
      [] stmt.op = "len" ->
            IF stmt.text[1] \notin DOMAIN st.locals THEN [st EXCEPT !.fault = "NameError"]
            ELSE IF st.locals[stmt.text[1]].k \notin {"list", "tuple", "text"}
                 THEN [st EXCEPT !.fault = "TypeError"]
            ELSE [st EXCEPT !.locals = Bind(st.locals, stmt.var,
                                            IntVal(SeqLen(st.locals[stmt.text[1]]))),
                            !.shared = @ \ {stmt.var}]
      [] OTHER -> st

RECURSIVE exec_from(_, _, _)
exec_from(i, stmts, st) ==
    IF i > Len(stmts) \/ st.fault # "" THEN st
    ELSE exec_from(i + 1, stmts, exec_stmt(stmts[i], st))

\* an interpreter whose scope starts without the setup variables
exec_code_no_setup(c, ex) ==
    exec_from(1, c.stmts,
              [locals |-> <<>>, shared |-> {}, setup |-> ex.setup,
               out |-> <<>>, fault |-> ""])

\* lines 237-246: the setup values are put in locals_dict as they are, and the
\* code runs with stdout and stderr redirected
exec_code(c, ex) ==
    exec_from(1, c.stmts,
              [locals |-> ex.setup, shared |-> DOMAIN ex.setup, setup |-> ex.setup,
               out |-> <<>>, fault |-> ""])

(* ------------------------- output redirection ------------------------ *)
\* redirect_stdout(stdout_capture), redirect_stderr(stderr_capture): entering
\* points sys.stdout and sys.stderr to the buffers, leaving puts back what they
\* pointed to before
redirect_enter(s) == [s EXCEPT !.stdout = "stdout_capture", !.stderr = "stderr_capture"]
redirect_exit(s, old) == [s EXCEPT !.stdout = old.stdout, !.stderr = old.stderr]
\* print writes to what sys.stdout points to: the buffer keeps it, anything else
\* is the host's stream
stream_write(s, text) ==
    IF s.stdout = "stdout_capture" THEN s ELSE [s EXCEPT !.written = @ \o text]

\* a redirection that is not undone when the body raises
with_redirect_no_restore(s, st) ==
    IF st.fault # "" THEN stream_write(redirect_enter(s), st.out)
    ELSE redirect_exit(stream_write(redirect_enter(s), st.out), s)

\* the with statement of lines 245-246 around exec, which ended in scope st: it is
\* left through __exit__ whether exec returned or raised
with_redirect(s, st) == redirect_exit(stream_write(redirect_enter(s), st.out), s)

\* the host's streams after validate_user_code(c, ex): the early returns of lines
\* 217-235 come before the redirection
streams_after(c, ex, s) ==
    IF ~lint_whitespace(c).ok \/ check_code_is_safe(c).verdict # "ok" THEN s
    ELSE with_redirect(s, exec_code(c, ex))

(* -------------------------- validate_user_code ------------------------ *)
\* What a call did: it raised (exc) or returned status, message, notes joined to
\* the message, stdout and details; setup is the exercise's setup as the call left
\* it.  stages and outcome record the way the call took through the function,
\* executed and checksRun what it did with the learner's code and the checks.
Graded(raised, status, message, notes, stdout, details, lineno, offset, stages, outcome, executed, locals, checksRun, setup) ==
    [raised |-> raised, status |-> status, message |-> message, notes |-> notes,
     stdout |-> stdout, details |-> details, lineno |-> lineno, offset |-> offset,
     stages |-> stages,
     outcome |-> outcome, executed |-> executed, locals |-> locals,
     checksRun |-> checksRun, setup |-> setup]
PlainMsg(kind) == Msg(kind, "", "", NoVal, 0, 0)
AllStages == <<"Parsed", "SafetyChecked", "Executed", "Graded">>

\* lines 270-299: r is what _run_checks_with_exercise returned or raised
after_checks(ex, st, r) ==
    LET done == SubSeq(AllStages, 1, 4)
        G(raised, status, message, notes, details, outcome) ==
            Graded(raised, status, message, notes, st.out, details, 0, 0, done, outcome,
                   TRUE, r.lv, Len(r.trace), st.setup)
    IN  IF r.raised
        THEN Graded(TRUE, "", r.message, <<>>, <<>>, "", 0, 0, SubSeq(AllStages, 1, 3),
                    "Exception", TRUE, r.lv, Len(r.trace), st.setup)
        ELSE IF r.ok /\ ex.custom = "fail"
        THEN G(FALSE, "fail", PlainMsg("custom_msg"), <<>>, "", "Fail")
        ELSE IF r.ok /\ ex.custom = "raise"
        THEN G(FALSE, "error", PlainMsg("error_in_exercise_validator"), <<>>,
               "traceback", "CheckerError")
        ELSE IF r.ok
        THEN G(FALSE, "ok",
               IF ex.custom = "ok_msg" THEN PlainMsg("custom_msg") ELSE r.message,
               r.notes, "", "Pass")
        ELSE G(FALSE, "fail", r.message, r.notes, "", "Fail")

\* a fault branch that hands back no output
after_exec_lose_output(ex, st) ==
    IF st.fault # ""
    THEN Graded(FALSE, "error", Msg("runtime_fault", st.fault, "", NoVal, 0, 0), <<>>,
                <<>>, "traceback", 0, 0, SubSeq(AllStages, 1, 2), "RuntimeError",
                TRUE, <<>>, 0, st.setup)
    ELSE IF ex.checks = <<>>
    THEN Graded(FALSE, "error", PlainMsg("no_checks_defined"), <<>>, st.out, "", 0, 0,
                SubSeq(AllStages, 1, 3), "NoChecks", TRUE, st.locals, 0, st.setup)
    ELSE after_checks(ex, st,
                      run_checks_with_exercise(ex.checks, st.locals, st.out,
                                               ex.accepted_vars))

\* lines 247-270: st is the scope exec() left
after_exec(ex, st) ==
    IF st.fault # ""
    THEN Graded(FALSE, "error", Msg("runtime_fault", st.fault, "", NoVal, 0, 0), <<>>,
                st.out, "traceback", 0, 0, SubSeq(AllStages, 1, 2), "RuntimeError",
                TRUE, <<>>, 0, st.setup)
    ELSE IF ex.checks = <<>>
    THEN Graded(FALSE, "error", PlainMsg("no_checks_defined"), <<>>, st.out, "", 0, 0,
                SubSeq(AllStages, 1, 3), "NoChecks", TRUE, st.locals, 0, st.setup)
    ELSE after_checks(ex, st,
                      run_checks_with_exercise(ex.checks, st.locals, st.out,
                                               ex.accepted_vars))

\* a grading that parses and analyzes the source before it looks at whitespace
validate_user_code_parse_first(c, ex) ==
    LET ws == lint_whitespace(c)
        safe == check_code_is_safe(c)
        Early(status, message, lineno, offset, stages, outcome) ==
            Graded(FALSE, status, message, <<>>, <<>>, "", lineno, offset, stages, outcome,
                   FALSE, <<>>, 0, ex.setup)
    IN  IF safe.verdict = "syntax"
        THEN Early("error", PlainMsg("syntax_error"), 1, 0, <<>>, "SyntaxError")
        ELSE IF safe.verdict = "violation"
        THEN Early("error", PlainMsg(safe.rule), 0, 0, SubSeq(AllStages, 1, 1),
                   "Blocked")
        ELSE IF ~ws.ok
        THEN Early("fail", PlainMsg(ws.kind), ws.line, ws.col, <<>>, "Fail")
        ELSE after_exec(ex, exec_code(c, ex))

validate_user_code(c, ex) ==
    LET ws == lint_whitespace(c)
        safe == check_code_is_safe(c)
        Early(status, message, lineno, offset, stages, outcome) ==
            Graded(FALSE, status, message, <<>>, <<>>, "", lineno, offset, stages, outcome,
                   FALSE, <<>>, 0, ex.setup)
    IN  IF ~ws.ok
        THEN Early("fail", PlainMsg(ws.kind), ws.line, ws.col, <<>>, "Fail")
        ELSE IF safe.verdict = "syntax"
        THEN Early("error", PlainMsg("syntax_error"), 1, 0, <<>>, "SyntaxError")
        ELSE IF safe.verdict = "violation"
        THEN Early("error", PlainMsg(safe.rule), 0, 0, SubSeq(AllStages, 1, 1),
                   "Blocked")
        ELSE after_exec(ex, exec_code(c, ex))

(* --------------------------- process executor ------------------------- *)
\* For the process executor a source is [parse, nodes]: nodes are its import
\* statements and __import__ calls in the order ast.walk yields them, each
\* [kind, names]: "import" with the dotted path of each alias, "from" with the
\* dotted path of its module (<<>> for a relative import without one),
\* "dyn_const" for __import__("<path>") and "dyn_expr" for __import__(<expression>).
BLOCKED_MODULES ==
    {"os", "sys", "shutil", "subprocess", "pathlib", "socket", "requests", "ctypes"}
Node(kind, names) == [kind |-> kind, names |-> names]

\* a test on the whole dotted path instead of its root name
BlockedRoots_whole_path(node) ==
    IF node.kind = "dyn_expr" THEN <<>>
    ELSE SelectSeq([i \in 1..Len(node.names) |->
                        IF Len(node.names[i]) # 1 THEN "" ELSE node.names[i][1]],
                   LAMBDA root : root \in BLOCKED_MODULES)

\* the denylisted root names a node refers to, in the order the code tries them
\* (a "dyn_expr" call has no constant argument and refers to none)
BlockedRoots(node) ==
    IF node.kind = "dyn_expr" THEN <<>>
    ELSE SelectSeq([i \in 1..Len(node.names) |->
                        IF node.names[i] = <<>> THEN "" ELSE node.names[i][1]],
                   LAMBDA root : root \in BLOCKED_MODULES)

\* a walk that does not look at from-imports
detect_blocked_import_no_from(c) ==
    LET hits == {i \in 1..Len(c.nodes) :
                    c.nodes[i].kind # "from" /\ BlockedRoots(c.nodes[i]) # <<>>} IN
    IF c.parse # "ok" \/ hits = {} THEN ""
    ELSE BlockedRoots(c.nodes[Min(hits)])[1]

\* the blocked root name, or "" for None
detect_blocked_import(c) ==
    LET hits == {i \in 1..Len(c.nodes) : BlockedRoots(c.nodes[i]) # <<>>} IN
    IF c.parse # "ok" \/ hits = {} THEN ""
    ELSE BlockedRoots(c.nodes[Min(hits)])[1]

\* Path.mkdir of the scratch directory: it is there afterwards, or mkdir raises
sandbox_dir(host) == IF host.sandbox_ok THEN "cwd" ELSE "raise"

\* None on Windows or without the resource module
build_preexec_limiter(host) == IF host.limiter THEN "limit_resources" ELSE "None"

\* A line of stderr is "" (empty), " " (whitespace only) or an error text.
Blank(line) == line \in {"", " "}
\* the first line instead of the last
error_summary_first(stderr) ==
    LET full == {i \in 1..Len(stderr) : ~Blank(stderr[i])} IN
    IF full = {} THEN [kind |-> "default_error", text |-> ""]
    ELSE [kind |-> "stderr_line", text |-> stderr[Min(full)]]

\* line 182: stderr_text.strip().splitlines()[-1], or the default message when
\* stderr_text.strip() is empty; strip() takes the blank lines off both ends
error_summary(stderr) ==
    LET full == {i \in 1..Len(stderr) : ~Blank(stderr[i])} IN
    IF full = {} THEN [kind |-> "default_error", text |-> ""]
    ELSE LET stripped == SubSeq(stderr, Min(full), CHOOSE i \in full : \A j \in full : j <= i)
         IN  [kind |-> "stderr_line", text |-> stripped[Len(stripped)]]

\* What the child does once started: fate "overrun" (still running when timeout_s
\* has passed) or "ended" with return code rc (negative: ended by a signal); what
\* it wrote; and whether it started a process of its own that is still running
\* when the call is over.
NoChild == [fate |-> "none", rc |-> 0, stdout |-> <<>>, stderr |-> <<>>, forks |-> FALSE]
RunMsg(kind, text) == [kind |-> kind, text |-> text]
Ran(phase, status, stdout, stderr, message, warnings, attempts, children, alive, child, argv) ==
    [phase |-> phase, status |-> status, stdout |-> stdout, stderr |-> stderr,
     message |-> message, warnings |-> warnings, attempts |-> attempts,
     children |-> children, alive |-> alive, child |-> child, argv |-> argv]

\* sys.executable: the interpreter, or the application's own executable when
\* the application runs frozen
sys_executable(host) == IF host.frozen THEN "app_executable" ELSE "python_executable"
\* line 135: the command line handed to subprocess.run
child_argv(host) == <<sys_executable(host), "-c", "script">>

\* lines 133-190: subprocess.run with the timeout, and the mapping of its outcome.
\* On a timeout subprocess.run kills the child it started and waits for it.
spawn_and_wait(host, child, warnings) ==
    LET left == IF child.forks THEN {"descendant"} ELSE {}
        argv == child_argv(host)
    IN
    IF ~host.spawn_ok
    THEN Ran("returned", "error", <<>>, <<>>, RunMsg("could_not_run", ""), warnings,
             1, 0, {}, NoChild, argv)
    ELSE IF child.fate = "overrun"
    THEN Ran("returned", "timeout", child.stdout, child.stderr, RunMsg("timeout", ""),
             warnings, 1, 1, left, child, argv)
    ELSE IF child.rc < 0
    THEN Ran("returned", "timeout", child.stdout, child.stderr,
             RunMsg("resource_limit", ""), warnings, 1, 1, left, child, argv)
    ELSE IF child.rc = 0
    THEN Ran("returned", "ok", child.stdout, child.stderr, RunMsg("completed", ""),
             warnings, 1, 1, left, child, argv)
    ELSE Ran("returned", "error", child.stdout, child.stderr,
             error_summary(child.stderr), warnings, 1, 1, left, child, argv)

run_user_code(c, host, child) ==
    LET blocked_module == detect_blocked_import(c)
        warnings == IF build_preexec_limiter(host) = "None"
                    THEN <<"limits_unavailable">> ELSE <<>>
    IN  IF blocked_module # ""
        THEN Ran("returned", "blocked", <<>>, <<>>, RunMsg("blocked", blocked_module),
                 <<>>, 0, 0, {}, NoChild, <<>>)
        ELSE IF sandbox_dir(host) = "raise"
        THEN Ran("raised", "", <<>>, <<>>, RunMsg("exception", "OSError"), <<>>,
                 0, 0, {}, NoChild, <<>>)
        ELSE spawn_and_wait(host, child, warnings)

(* ------------------ process executor: inputs and calls ---------------- *)
NodeAlphabet ==
    { Node("import", << <<"math">>, <<"os", "path">> >>),
      Node("import", << <<"multiprocessing">> >>),
      Node("from", << <<"subprocess">> >>),
      Node("from", << <<>> >>),
      Node("dyn_const", << <<"sys">> >>),
      Node("dyn_expr", << >>) }
RunCodes ==
    { [parse |-> p, nodes |-> ns] :
        p \in {"ok", "syntax"}, ns \in SeqsUpTo(NodeAlphabet, MaxNodes) }
Hosts ==
    [sandbox_ok : BOOLEAN, spawn_ok : BOOLEAN, limiter : BOOLEAN, frozen : BOOLEAN]
\* the source can get hold of process-starting modules the denylist does not stop
CanStartProcesses(c) ==
    /\ c.parse = "ok"
    /\ \E i \in 1..Len(c.nodes) : BlockedRoots(c.nodes[i]) = <<>>
AllChildren ==
    [fate : {"overrun", "ended"}, rc : {-9, 0, 1, 2}, stdout : {<<>>, <<"x">>},
     stderr : SeqsUpTo({"", " ", "E1", "E2"}, MaxLines), forks : BOOLEAN]
\* python -c on a source that does not parse writes the error and exits with 1
Children(c) ==
    { ch \in AllChildren :
        /\ ch.fate = "overrun" => ch.rc = 0
        /\ ch.forks => CanStartProcesses(c)
        /\ c.parse = "syntax" =>
              /\ ch.fate = "ended" /\ ch.rc = 1 /\ ch.stdout = <<>>
              /\ ch.stderr # <<>> /\ ~Blank(ch.stderr[Len(ch.stderr)]) }

InitRun ==
    /\ run \in [code : RunCodes, host : Hosts]
    /\ runResult = NoRun
    /\ EvalIdle /\ GradeIdle /\ AppIdle

\* run_user_code(code, setup) under the host's conditions; the child, if one is
\* started, behaves in one of the ways open to the source
RunUserCode ==
    /\ runResult = NoRun
    /\ \E ch \in Children(run.code) :
            runResult' = run_user_code(run.code, run.host, ch)
    /\ UNCHANGED <<run, evalVars, gradeVars, appVars>>

NextRun == RunUserCode
SpecRun == InitRun /\ [][NextRun]_vars

(* --------------------- evaluator: inputs and calls -------------------- *)
Expected6 == IntVal(6)
ExpectedList == ListVal(<<Num(10), Num(20)>>)
Check(type, var, expected, text, message, summary) ==
    [type |-> type, var |-> var, expected |-> expected, text |-> text,
     message |-> message, summary |-> summary]
CheckAlphabet ==
    { Check("equals", "result", Expected6, <<>>, "m_eq", ""),
      Check("list_close", "result", ExpectedList, <<>>, "m_lc", ""),
      Check("list_close", "out", ExpectedList, <<>>, "m_lo", "two numbers"),
      Check("output_contains", "", NoVal, <<"6">>, "m_out", ""),
      Check("output_contains", "", NoVal, <<>>, "m_any", ""),
      Check("regex", "", NoVal, <<>>, "m_re", "") }
EvalValues ==
    { IntVal(6), IntVal(7), TextVal(1),
      ListVal(<<Num(10), Num(20)>>), ListVal(<<Num(11), Num(20)>>),
      ListVal(<<Num(10), Num(22)>>), ListVal(<<Num(10)>>),
      ListVal(<<Num(10), NotNum>>), TupleVal(<<Num(10), Num(20)>>),
      MapVal(<<Num(10), Num(20)>>, FALSE), MapVal(<<Num(10), Num(20)>>, TRUE) }
EvalNames == {"result", "out"}
EvalBindings == UNION {[S -> EvalValues] : S \in SUBSET EvalNames}
EvalOutputs == { <<>>, <<"6", "\n">>, <<"1", "6", "\n">> }
EvalAccepted == { <<>>, <<"out">> }

InitEval ==
    /\ checks \in SeqsUpTo(CheckAlphabet, MaxChecks)
    /\ local_vars \in EvalBindings
    /\ captured_out \in EvalOutputs
    /\ accepted_vars \in EvalAccepted
    /\ evalResults = <<>>
    /\ GradeIdle /\ RunIdle /\ AppIdle

EvaluatorReturns(r) ==
    /\ evalResults' = Append(evalResults, r)
    /\ local_vars' = r.lv

\* a call of _run_checks_with_exercise(checks, local_vars, captured_out, exercise);
\* the objects bound in local_vars stay as the call left them
CallEvaluator ==
    /\ Len(evalResults) = 0
    /\ EvaluatorReturns(run_checks_with_exercise(checks, local_vars, captured_out,
                                                 accepted_vars))
    /\ UNCHANGED <<checks, captured_out, accepted_vars, gradeVars, runVars, appVars>>

\* the same call again, on the same arguments
CallEvaluatorAgain ==
    /\ Len(evalResults) = 1
    /\ EvaluatorReturns(run_checks_with_exercise(checks, local_vars, captured_out,
                                                 accepted_vars))
    /\ UNCHANGED <<checks, captured_out, accepted_vars, gradeVars, runVars, appVars>>

NextEval == CallEvaluator \/ CallEvaluatorAgain
SpecEval == InitEval /\ [][NextEval]_vars

(* ------------- evaluator: calls that resolve a variable --------------- *)
\* one equals or list_close check on "total", an exercise that accepts up to
\* MaxAlts other names, and bindings of the three names
ResolveChecks ==
    { Check("equals", "total", Expected6, <<>>, "m_eq", ""),
      Check("list_close", "total", ExpectedList, <<>>, "m_lc", "") }
ResolveValues == { IntVal(6), IntVal(7), ListVal(<<Num(10), Num(20)>>) }
ResolveNames == {"total", "suma", "resultado"}
ResolveBindings == UNION {[S -> ResolveValues] : S \in SUBSET ResolveNames}
ResolveAccepted == SeqsUpTo({"suma", "resultado"}, MaxAlts)

InitResolve ==
    /\ checks \in {<<c>> : c \in ResolveChecks}
    /\ local_vars \in ResolveBindings
    /\ captured_out = <<>>
    /\ accepted_vars \in ResolveAccepted
    /\ evalResults = <<>>
    /\ GradeIdle /\ RunIdle /\ AppIdle

SpecResolve == InitResolve /\ [][NextEval]_vars

(* ------------- evaluator: calls that compare a sequence --------------- *)
\* one list_close check on "result", which is bound; numbers are counted in units
\* of 1e-6, so Num(1000000) is 1.0
CompareElements ==
    { Num(10), Num(11), Num(12), Num(-10),
      Num(1000000), Num(1000001), Num(1000002), NotNum }
CompareItems == SeqsUpTo(CompareElements, MaxItems)
CompareValues ==
    { ListVal(items) : items \in CompareItems }
    \cup { TupleVal(items) : items \in CompareItems }
    \cup { MapVal(items, FALSE) : items \in CompareItems }
    \cup { MapVal(<<Num(10), Num(1000000)>>, TRUE), TextVal(2), IntVal(6) }
CompareExpected == { ListVal(items) : items \in SeqsUpTo({Num(10), Num(1000000)}, MaxItems) }
CompareChecks ==
    { Check("list_close", "result", e, <<>>, "m_lc", sm) :
        e \in CompareExpected, sm \in {"", "numbers"} }

InitCompare ==
    /\ checks \in {<<c>> : c \in CompareChecks}
    /\ local_vars \in [{"result"} -> CompareValues]
    /\ captured_out = <<>>
    /\ accepted_vars = <<>>
    /\ evalResults = <<>>
    /\ GradeIdle /\ RunIdle /\ AppIdle

SpecCompare == InitCompare /\ [][NextEval]_vars

(* ----------------------- grading: inputs and calls -------------------- *)
SetupList == ListVal(<<Num(10), Num(20)>>)
ExecStmts ==
    { Stmt("assign", "result", IntVal(3), <<>>),
      Stmt("assign", "result", ListVal(<<Num(10), Num(20)>>), <<>>),
      Stmt("assign", "result", ListVal(<<Num(10), NotNum>>), <<>>),
      Stmt("assign", "result", MapVal(<<Num(10), Num(20)>>, FALSE), <<>>),
      Stmt("assign", "result", MapVal(<<Num(10), Num(20)>>, TRUE), <<>>),
      Stmt("assign", "out", IntVal(3), <<>>),
      Stmt("print", "", NoVal, <<"3">>),
      Stmt("raise", "", NoVal, <<>>),
      Stmt("append", "datos", Num(30), <<>>),
      Stmt("len", "result", NoVal, <<"datos">>) }
RejectedStmts ==
    { Stmt(op, "", NoVal, <<>>) :
        op \in {"import", "global", "dunder_name", "dunder_attr", "banned_call"} }
\* sources that are clean and parse, and a few that do not
Programs ==
    { [lines |-> <<"clean", "clean">>, parse |-> "ok", stmts |-> ss] :
        ss \in SeqsUpTo(ExecStmts \cup RejectedStmts, MaxStmts) }
    \cup
    { [lines |-> ls, parse |-> p, stmts |-> ss] :
        ls \in {<<"clean", "clean">>, <<"clean", "trail">>, <<"tab", "trail">>,
                <<"inner_tab", "tab_trail">>, <<"empty", "blank">>},
        p \in {"ok", "syntax"},
        ss \in { <<>>, <<Stmt("print", "", NoVal, <<"3">>)>>,
                 <<Stmt("print", "", NoVal, <<"3">>), Stmt("import", "", NoVal, <<>>)>> } }
GradeChecks ==
    { Check("equals", "result", IntVal(3), <<>>, "m_eq", ""),
      Check("list_close", "result", ExpectedList, <<>>, "m_lc", ""),
      Check("list_close", "datos", ExpectedList, <<>>, "m_ld", ""),
      Check("output_contains", "", NoVal, <<"3">>, "m_out", ""),
      Check("regex", "", NoVal, <<>>, "m_re", "") }
Exercises ==
    { [setup |-> su, checks |-> cs, accepted_vars |-> av, custom |-> "none"] :
        su \in {<<>>, [n \in {"datos"} |-> SetupList]},
        cs \in SeqsUpTo(GradeChecks, MaxChecks),
        av \in {<<>>, <<"out", "datos">>} }
    \cup
    { [setup |-> <<>>, checks |-> cs, accepted_vars |-> <<>>, custom |-> cu] :
        cs \in {<<>>} \cup {<<c>> : c \in GradeChecks},
        cu \in {"ok", "ok_msg", "fail", "raise"} }

InitGrade ==
    /\ exercise \in Exercises
    /\ code = NoCode
    /\ gradeResults = <<>>
    /\ streams = HostStreams
    /\ EvalIdle /\ RunIdle /\ AppIdle

GradeReturns(r) ==
    /\ gradeResults' = Append(gradeResults, r)
    /\ exercise' = [exercise EXCEPT !.setup = r.setup]

\* validate_user_code(code, exercise) on a submitted source
Grade ==
    /\ Len(gradeResults) = 0
    /\ \E c \in Programs :
        /\ code' = c
        /\ GradeReturns(validate_user_code(c, exercise))
        /\ streams' = streams_after(c, exercise, streams)
    /\ UNCHANGED <<evalVars, runVars, appVars>>

\* the same source graded again against the same exercise object
GradeAgain ==
    /\ Len(gradeResults) = 1
    /\ GradeReturns(validate_user_code(code, exercise))
    /\ streams' = streams_after(code, exercise, streams)
    /\ UNCHANGED <<code, evalVars, runVars, appVars>>

NextGrade == Grade \/ GradeAgain
Spec == InitGrade /\ [][NextGrade]_vars


(* ------------------ strict analyzer on syntax trees ------------------- *)
\* A node of the tree ast.parse returns is [kind, name, kids]: its class, its
\* identifier field (Name.id, Attribute.attr, FunctionDef.name) and its child
\* nodes in field order (Call: func first, then the arguments).  Nodes that no
\* rule looks at (expression contexts, import aliases, argument lists) are left
\* out.
TreeNode(kind, name, kids) == [kind |-> kind, name |-> name, kids |-> kids]

\* the characters of an identifier
Chars(id) ==
    CASE id = "x" -> <<"x">>
      [] id = "y" -> <<"y">>
      [] id = "f" -> <<"f">>
      [] id = "eval" -> <<"e", "v", "a", "l">>
      [] id = "__x__" -> <<"_", "_", "x", "_", "_">>
      [] id = "__class__" -> <<"_", "_", "c", "_", "_">>
      [] id = "__f__" -> <<"_", "_", "f", "_", "_">>
      [] OTHER -> <<>>
\* "__" in id
HasDunder(id) == IsSubstring(<<"_", "_">>, Chars(id))

banned_calls ==
    { "__import__", "eval", "exec", "compile", "open", "input", "globals", "locals",
      "vars", "dir", "help", "getattr", "setattr", "delattr", "breakpoint" }

\* ast.walk: the nodes of the tree, breadth first
RECURSIVE walk(_)
walk(todo) ==
    IF todo = <<>> THEN <<>>
    ELSE <<Head(todo)>> \o walk(Tail(todo) \o Head(todo).kids)

\* lines 42-51 on one node: the rule it breaks, "" for none
node_violation(node) ==
    IF node.kind \in {"Import", "ImportFrom"} THEN "import"
    ELSE IF node.kind \in {"Global", "Nonlocal"} THEN "global"
    ELSE IF node.kind = "Name" /\ HasDunder(node.name) THEN "dunder_name"
    ELSE IF node.kind = "Attribute" /\ HasDunder(node.name) THEN "dunder_attr"
    ELSE IF /\ node.kind = "Call"
            /\ node.kids[1].kind = "Name"
            /\ node.kids[1].name \in banned_calls THEN "banned_call"
    ELSE ""

\* the loop of lines 41-51 over a walk: the first node that breaks a rule
first_violation(nodes) ==
    LET bad == {i \in 1..Len(nodes) : node_violation(nodes[i]) # ""} IN
    IF bad = {} THEN [verdict |-> "ok", rule |-> "", at |-> 0]
    ELSE [verdict |-> "violation", rule |-> node_violation(nodes[Min(bad)]), at |-> Min(bad)]

\* _check_code_is_safe on a source that parses to t
check_tree_is_safe(t) == first_violation(walk(<<t>>))


(* ------------------ strict analyzer: inputs and calls ----------------- *)
TreeLeaves ==
    { TreeNode("Name", id, <<>>) : id \in {"x", "__x__", "eval"} }
    \cup { TreeNode("Constant", "", <<>>) }
\* the expressions of at most d levels
RECURSIVE TreeExprs(_)
TreeExprs(d) ==
    IF d = 0 THEN {}
    ELSE TreeLeaves
         \cup { TreeNode("Attribute", a, <<e>>) :
                    a \in {"y", "__class__"}, e \in TreeExprs(d - 1) }
         \cup { TreeNode("Call", "", <<fn>> \o args) :
                    fn \in TreeExprs(d - 1),
                    args \in {<<>>} \cup {<<a>> : a \in TreeLeaves} }
\* the statements of at most d levels
RECURSIVE TreeStmts(_)
TreeStmts(d) ==
    IF d = 0 THEN {}
    ELSE { TreeNode(k, "", <<>>) : k \in {"Import", "ImportFrom", "Global", "Nonlocal"} }
         \cup { TreeNode("Expr", "", <<e>>) : e \in TreeExprs(d - 1) }
         \cup { TreeNode("FunctionDef", n, <<b>>) :
                    n \in {"f", "__f__"}, b \in TreeStmts(d - 1) }
\* modules of one statement, or of one statement and a shallow one after it
Trees ==
    { TreeNode("Module", "", body) :
        body \in { <<st>> : st \in TreeStmts(MaxDepth) }
                 \cup { <<st, nx>> : st \in TreeStmts(MaxDepth), nx \in TreeStmts(2) } }

InitAnalyze ==
    /\ tree \in Trees
    /\ analysis = <<>>
    /\ EvalIdle /\ GradeIdle /\ RunIdle /\ ApiIdle /\ ProgressIdle /\ NavIdle /\ LspIdle

\* _check_code_is_safe(code) on a source that parses
Analyze ==
    /\ analysis = <<>>
    /\ analysis' = <<check_tree_is_safe(tree)>>
    /\ UNCHANGED <<tree, evalVars, gradeVars, runVars, apiVars, progressVars, navVars, lspVars>>

NextAnalyze == Analyze
SpecAnalyze == InitAnalyze /\ [][NextAnalyze]_vars


(* ------------------------------ VscodeApi ----------------------------- *)
\* str(mode).lower()
Lower(mode) ==
    CASE mode \in {"exam", "EXAM", "Exam"} -> "exam"
      [] mode \in {"study", "Study"} -> "study"
      [] OTHER -> mode
current_mode(mode) == IF Lower(mode) = "exam" THEN "exam" ELSE "study"

\* The submitted code is the set of the phrases _study_hint looks for that its
\* lowered text holds ("while true" stands for it and "while 1", "/0" for it and
\* "/ 0", "total =" for it, "suma =" and "resultado =").  A message is named
\* after its content, and stderr is the sequence of its parts.
HintPhrases == {"while true", "sleep(", "/0", "total =", "print("}
MentionsZeroDivision(texts) ==
    \E i \in 1..Len(texts) : texts[i] \in {"ZeroDivisionError: division by zero", "trace_zero"}

\* _study_hint(code, result): "" or the hint chosen
study_hint(c, result) ==
    IF result.status = "timeout"
    THEN IF "while true" \in c THEN "hint_loop"
         ELSE IF "sleep(" \in c THEN "hint_sleep"
         ELSE "hint_slow"
    ELSE IF \/ MentionsZeroDivision(result.stderr \o <<result.message>>)
            \/ "/0" \in c THEN "hint_zero_division"
    ELSE IF "total =" \in c /\ "print(" \notin c THEN "hint_print"
    ELSE ""

\* lines 631-638 and 648-655: the payload made from the executor's result
Payload(rr) ==
    [status |-> rr.status, stdout |-> rr.stdout, stderr |-> rr.stderr,
     message |-> rr.message, hint |-> ""]

\* lines 659-662 (the details of a validation go to stderr, lines 663-664)
merge_validation(p, v) ==
    [p EXCEPT !.status = v.status,
              !.message = v.message,
              !.stdout = v.stdout,
              !.stderr = (IF v.has_stderr THEN v.stderr ELSE p.stderr) \o v.details]

with_hint_always(mode, c, p) == [p EXCEPT !.hint = study_hint(c, p)]
\* lines 640-641 and 668-669
with_hint(mode, c, p) ==
    IF current_mode(mode) = "study" THEN [p EXCEPT !.hint = study_hint(c, p)] ELSE p

\* What a call did: the operation, its arguments, the calls it made to
\* run_user_code and validate_user_code with what they returned, and the
\* payload returned (raised: an exception of a callee went through).
ApiReply(op, mode, c, rr, v, calls, raised, payload) ==
    [op |-> op, mode |-> mode, code |-> c, run |-> rr, validation |-> v,
     calls |-> calls, raised |-> raised, payload |-> payload]
NoPayload == [status |-> "", stdout |-> "", stderr |-> <<>>, message |-> "", hint |-> ""]
NotValidated ==
    [status |-> "", message |-> "", stdout |-> "", stderr |-> <<>>,
     has_stderr |-> FALSE, details |-> <<>>]

run_code(c, mode, rr) ==
    IF rr.status = "raised"
    THEN ApiReply("run_code", mode, c, rr, NotValidated, <<"run_user_code">>, TRUE, NoPayload)
    ELSE ApiReply("run_code", mode, c, rr, NotValidated, <<"run_user_code">>, FALSE,
                  with_hint(mode, c, Payload(rr)))

check_code_always_validates(c, mode, rr, v) ==
    IF rr.status = "raised"
    THEN ApiReply("check_code", mode, c, rr, NotValidated, <<"run_user_code">>, TRUE, NoPayload)
    ELSE IF v.status = "raised"
    THEN ApiReply("check_code", mode, c, rr, v,
                  <<"run_user_code", "validate_user_code">>, TRUE, NoPayload)
    ELSE ApiReply("check_code", mode, c, rr, v,
                  <<"run_user_code", "validate_user_code">>, FALSE,
                  with_hint(mode, c, merge_validation(Payload(rr), v)))

check_code(c, mode, rr, v) ==
    IF rr.status = "raised"
    THEN ApiReply("check_code", mode, c, rr, NotValidated, <<"run_user_code">>, TRUE, NoPayload)
    ELSE IF rr.status # "ok"
    THEN ApiReply("check_code", mode, c, rr, NotValidated, <<"run_user_code">>, FALSE,
                  with_hint(mode, c, Payload(rr)))
    ELSE IF v.status = "raised"
    THEN ApiReply("check_code", mode, c, rr, v,
                  <<"run_user_code", "validate_user_code">>, TRUE, NoPayload)
    ELSE ApiReply("check_code", mode, c, rr, v,
                  <<"run_user_code", "validate_user_code">>, FALSE,
                  with_hint(mode, c, merge_validation(Payload(rr), v)))

(* --------------------- VscodeApi: inputs and calls -------------------- *)
ApiModes == {"study", "exam", "EXAM", "Exam", "exam ", ""}
ApiCodes == SUBSET HintPhrases
\* what run_user_code returns, or that it raised
RunReplies ==
    { [status |-> "ok", stdout |-> so, stderr |-> <<>>, message |-> "Ejecucion completada."] :
        so \in {"", "123"} }
    \cup
    { [status |-> "error", stdout |-> "", stderr |-> <<"Traceback", e>>, message |-> e] :
        e \in {"ZeroDivisionError: division by zero", "NameError: name 'x' is not defined"} }
    \cup
    { [status |-> "timeout", stdout |-> "", stderr |-> <<>>, message |-> m] :
        m \in {"Tiempo excedido.", "Ejecucion detenida por limite de recursos."} }
    \cup
    { [status |-> "blocked", stdout |-> "", stderr |-> <<>>,
       message |-> "Import bloqueado por seguridad"],
      [status |-> "raised", stdout |-> "", stderr |-> <<>>, message |-> ""] }
\* what validate_user_code returns, or that it raised
Validations ==
    { [status |-> "ok", message |-> "Correcto.", stdout |-> "123", stderr |-> <<>>,
       has_stderr |-> TRUE, details |-> <<>>],
      [status |-> "fail", message |-> "No coincide", stdout |-> "123", stderr |-> <<>>,
       has_stderr |-> TRUE, details |-> <<>>],
      [status |-> "fail", message |-> "lint", stdout |-> "", stderr |-> <<>>,
       has_stderr |-> FALSE, details |-> <<>>],
      [status |-> "error", message |-> "No se permiten imports en este ejercicio.",
       stdout |-> "", stderr |-> <<>>, has_stderr |-> FALSE, details |-> <<>>],
      [status |-> "error", message |-> "ZeroDivisionError: division by zero",
       stdout |-> "", stderr |-> <<>>, has_stderr |-> FALSE, details |-> <<"trace_zero">>],
      [status |-> "raised", message |-> "", stdout |-> "", stderr |-> <<>>,
       has_stderr |-> FALSE, details |-> <<>>] }

InitApi ==
    /\ apiReplies = <<>>
    /\ EvalIdle /\ GradeIdle /\ RunIdle /\ AnalyzeIdle /\ ProgressIdle /\ NavIdle /\ LspIdle

\* VscodeApi.run_code(code, mode); run_user_code answers in one of its ways
RunCode ==
    /\ apiReplies = <<>>
    /\ \E c \in ApiCodes, mode \in ApiModes, rr \in RunReplies :
            apiReplies' = <<run_code(c, mode, rr)>>
    /\ UNCHANGED <<evalVars, gradeVars, runVars, analyzeVars, progressVars, navVars, lspVars>>

\* VscodeApi.check_code(code, mode); v is what validate_user_code answers when
\* it is called
CheckCode ==
    /\ apiReplies = <<>>
    /\ \E c \in ApiCodes, mode \in ApiModes, rr \in RunReplies, v \in Validations :
            apiReplies' = <<check_code(c, mode, rr, v)>>
    /\ UNCHANGED <<evalVars, gradeVars, runVars, analyzeVars, progressVars, navVars, lspVars>>

NextApi == RunCode \/ CheckCode
SpecApi == InitApi /\ [][NextApi]_vars


(* ------------------------------ progress ------------------------------ *)
\* A catalog is the list of its modules [id, lessons], a lesson is
\* [id, exercises] and an exercise is its id.  The progress data is
\* [exercises, current]: the records by key, and the current position (its
\* mode, which no decision reads, is left out).  A record is
\* [module_id, attempts, completed].
exercise_key(m, l, e) == <<m, l, e>>

\* record_attempt: the data it saves
record_attempt_sticky(data, m, l, e, ok) ==
    LET key == exercise_key(m, l, e)
        old == IF key \in DOMAIN data.exercises THEN data.exercises[key]
               ELSE [module_id |-> m, attempts |-> 0, completed |-> FALSE]
        rec == [old EXCEPT !.attempts = old.attempts + 1,
                           !.completed = old.completed \/ ok]
    IN  [exercises |-> Bind(data.exercises, key, rec), current |-> Position(m, l, e)]

record_attempt(data, m, l, e, ok) ==
    LET key == exercise_key(m, l, e)
        old == IF key \in DOMAIN data.exercises THEN data.exercises[key]
               ELSE [module_id |-> m, attempts |-> 0, completed |-> FALSE]
        rec == [old EXCEPT !.attempts = old.attempts + 1, !.completed = ok]
    IN  [exercises |-> Bind(data.exercises, key, rec), current |-> Position(m, l, e)]

is_exercise_completed(data, m, l, e) ==
    /\ exercise_key(m, l, e) \in DOMAIN data.exercises
    /\ data.exercises[exercise_key(m, l, e)].completed

module_completed(data, module) ==
    \A li \in 1..Len(module.lessons) :
        \A ei \in 1..Len(module.lessons[li].exercises) :
            is_exercise_completed(data, module.id, module.lessons[li].id,
                                  module.lessons[li].exercises[ei])

\* the dict allowed_modules returns, by module id (a later module of the same id
\* overwrites the entry)
allowed_modules(modules, data) ==
    [id \in {modules[i].id : i \in 1..Len(modules)} |->
        LET last == CHOOSE i \in 1..Len(modules) :
                        /\ modules[i].id = id
                        /\ \A j \in 1..Len(modules) : modules[j].id = id => j <= i
        IN  IF last = 1 THEN TRUE ELSE module_completed(data, modules[last - 1])]

get_current_position(data) ==
    <<data.current.module_id, data.current.lesson_id, data.current.exercise_id>>

set_current_position(data, m, l, e) == [data EXCEPT !.current = Position(m, l, e)]

\* the first element of a list with the id, 0 for None
IndexOfId(items, id) ==
    IF \E i \in 1..Len(items) : items[i].id = id
    THEN Min({i \in 1..Len(items) : items[i].id = id}) ELSE 0

validate_current_pointer(modules, data) ==
    LET cur == data.current
        mi == IndexOfId(modules, cur.module_id)
    IN  IF mi = 0
        THEN set_current_position(data, modules[1].id, modules[1].lessons[1].id,
                                  modules[1].lessons[1].exercises[1])
        ELSE LET module == modules[mi]
                 li == IndexOfId(module.lessons, cur.lesson_id)
             IN  IF li = 0
                 THEN set_current_position(data, cur.module_id, module.lessons[1].id,
                                           module.lessons[1].exercises[1])
                 ELSE IF \E ei \in 1..Len(module.lessons[li].exercises) :
                            module.lessons[li].exercises[ei] = cur.exercise_id
                 THEN set_current_position(data, cur.module_id, cur.lesson_id,
                                           cur.exercise_id)
                 ELSE set_current_position(data, cur.module_id, cur.lesson_id,
                                           module.lessons[li].exercises[1])

reset_module_progress(modules, module_id, data) ==
    LET kept == {k \in DOMAIN data.exercises : data.exercises[k].module_id # module_id}
        cleared == [data EXCEPT !.exercises = [k \in kept |-> data.exercises[k]]]
        mi == IndexOfId(modules, module_id)
    IN  IF mi # 0
        THEN set_current_position(cleared, module_id, modules[mi].lessons[1].id,
                                  modules[mi].lessons[1].exercises[1])
        ELSE validate_current_pointer(modules, cleared)


(* ------------------------- catalog navigation ------------------------- *)
NotFound == <<0, 0, 0>>
\* the index triples of the exercises of a catalog
Indices(modules) ==
    UNION { UNION { { <<mi, li, ei>> : ei \in 1..Len(modules[mi].lessons[li].exercises) } :
                    li \in 1..Len(modules[mi].lessons) } :
            mi \in 1..Len(modules) }
PositionAt(modules, idx) ==
    <<modules[idx[1]].id, modules[idx[1]].lessons[idx[2]].id,
      modules[idx[1]].lessons[idx[2]].exercises[idx[3]]>>
IndexBefore(x, y) ==
    \/ x[1] < y[1]
    \/ x[1] = y[1] /\ x[2] < y[2]
    \/ x[1] = y[1] /\ x[2] = y[2] /\ x[3] <= y[3]

\* find_indices: the first exercise, in the order of the three loops, whose
\* module, lesson and own ids are the ones asked for (NotFound: ValueError)
find_indices(modules, m, l, e) ==
    LET hits == {idx \in Indices(modules) : PositionAt(modules, idx) = <<m, l, e>>} IN
    IF hits = {} THEN NotFound
    ELSE CHOOSE x \in hits : \A y \in hits : IndexBefore(x, y)

\* what next_position gives: a position, None, or the ValueError of find_indices
Found(pos) == [kind |-> "position", pos |-> pos]
NoPosition == [kind |-> "None", pos |-> <<>>]
NoIndices == [kind |-> "ValueError", pos |-> <<>>]

next_from_same_lesson(modules, idx) ==
    IF idx = NotFound THEN NoIndices
    ELSE LET module == modules[idx[1]]
             lesson == module.lessons[idx[2]]
         IN  IF idx[3] + 1 <= Len(lesson.exercises)
             THEN Found(<<module.id, lesson.id, lesson.exercises[idx[3] + 1]>>)
             ELSE IF idx[1] + 1 <= Len(modules)
             THEN Found(PositionAt(modules, <<idx[1] + 1, 1, 1>>))
             ELSE NoPosition

\* lines 382-396 on the indices found
next_from(modules, idx) ==
    IF idx = NotFound THEN NoIndices
    ELSE LET module == modules[idx[1]]
             lesson == module.lessons[idx[2]]
         IN  IF idx[3] + 1 <= Len(lesson.exercises)
             THEN Found(<<module.id, lesson.id, lesson.exercises[idx[3] + 1]>>)
             ELSE IF idx[2] + 1 <= Len(module.lessons)
             THEN Found(PositionAt(modules, <<idx[1], idx[2] + 1, 1>>))
             ELSE IF idx[1] + 1 <= Len(modules)
             THEN Found(PositionAt(modules, <<idx[1] + 1, 1, 1>>))
             ELSE NoPosition
next_position(modules, m, l, e) == next_from(modules, find_indices(modules, m, l, e))

(* --------------------- CLI: the exercise to show ---------------------- *)
\* find_exercise: whether the first module with the id holds the exercise in a
\* lesson with the lesson id
find_exercise(modules, m, l, e) ==
    LET mi == IndexOfId(modules, m) IN
    /\ mi # 0
    /\ \E li \in 1..Len(modules[mi].lessons) :
          /\ modules[mi].lessons[li].id = l
          /\ \E ei \in 1..Len(modules[mi].lessons[li].exercises) :
                modules[mi].lessons[li].exercises[ei] = e

\* the modules before the first one that is not allowed (the break of line 37)
allowed_run(modules, data) ==
    LET allowed == allowed_modules(modules, data)
        closed == {i \in 1..Len(modules) : ~allowed[modules[i].id]}
    IN  IF closed = {} THEN Len(modules) ELSE Min(closed) - 1

pending_in(modules, data, upto) ==
    {idx \in Indices(modules) :
        /\ idx[1] <= upto
        /\ ~is_exercise_completed(data, modules[idx[1]].id, modules[idx[1]].lessons[idx[2]].id,
                                  modules[idx[1]].lessons[idx[2]].exercises[idx[3]])}

\* _first_pending: the first exercise not completed in the allowed modules
first_pending(modules, data) ==
    LET pending == pending_in(modules, data, allowed_run(modules, data)) IN
    IF pending = {} THEN NoPosition
    ELSE Found(PositionAt(modules, CHOOSE x \in pending : \A y \in pending : IndexBefore(x, y)))

\* a selection that does not look at the module being allowed
current_or_pending_unlocked(modules, data) ==
    LET cur == data.current IN
    IF ~find_exercise(modules, cur.module_id, cur.lesson_id, cur.exercise_id)
    THEN first_pending(modules, data)
    ELSE IF is_exercise_completed(data, cur.module_id, cur.lesson_id, cur.exercise_id)
    THEN first_pending(modules, data)
    ELSE Found(<<cur.module_id, cur.lesson_id, cur.exercise_id>>)

\* _current_or_pending: the exercise at the pointer, or the first one pending
current_or_pending(modules, data) ==
    LET cur == data.current
        allowed == allowed_modules(modules, data)
    IN  IF ~(cur.module_id \in DOMAIN allowed /\ allowed[cur.module_id])
        THEN first_pending(modules, data)
        ELSE IF ~find_exercise(modules, cur.module_id, cur.lesson_id, cur.exercise_id)
        THEN first_pending(modules, data)
        ELSE IF is_exercise_completed(data, cur.module_id, cur.lesson_id, cur.exercise_id)
        THEN first_pending(modules, data)
        ELSE Found(<<cur.module_id, cur.lesson_id, cur.exercise_id>>)


(* --------------------- progress: inputs and calls --------------------- *)
\* the module number i whose lessons hold shape[j] exercises each
MakeModule(i, shape) ==
    [id |-> <<i>>,
     lessons |-> [j \in 1..Len(shape) |->
                    [id |-> <<i, j>>, exercises |-> [k \in 1..shape[j] |-> <<i, j, k>>]]]]
MakeCatalog(shapes) == [i \in 1..Len(shapes) |-> MakeModule(i, shapes[i])]
\* catalogs of one to MaxModules modules: a first module of one or two
\* exercises, in one or two lessons, and modules of one exercise after it
ProgressCatalogs ==
    { MakeCatalog(<<first>> \o [i \in 1..(n - 1) |-> <<1>>]) :
        n \in 1..MaxModules, first \in {<<1>>, <<2>>, <<1, 1>>} }
UnknownPosition == <<<<0>>, <<0, 0>>, <<0, 0, 0>>>>
LogOf(log, key) == IF key \in DOMAIN log THEN log[key] ELSE <<>>
\* the attempts on record, over all exercises
Attempts(log) == UNION {{<<key, i>> : i \in 1..Len(log[key])} : key \in DOMAIN log}

InitProgress ==
    /\ catalog \in ProgressCatalogs
    /\ progress = empty_data
    /\ recorded = <<>>
    /\ EvalIdle /\ GradeIdle /\ RunIdle /\ AnalyzeIdle /\ ApiIdle /\ NavIdle /\ LspIdle

\* record_attempt(module_id, lesson_id, exercise_id, code, ok, error)
RecordAttempt ==
    /\ \E idx \in Indices(catalog), ok \in BOOLEAN :
        LET pos == PositionAt(catalog, idx) IN
        /\ Cardinality(Attempts(recorded)) < MaxAttempts
        /\ progress' = record_attempt(progress, pos[1], pos[2], pos[3], ok)
        /\ recorded' = Bind(recorded, pos, Append(LogOf(recorded, pos), ok))
    /\ UNCHANGED <<catalog, evalVars, gradeVars, runVars, analyzeVars, apiVars, navVars, lspVars>>

\* reset_module_progress(modules, module_id), of a module or of an unknown id
ResetModule ==
    /\ \E m \in {catalog[i].id : i \in 1..Len(catalog)} \cup {<<0>>} :
        /\ progress' = reset_module_progress(catalog, m, progress)
        /\ recorded' = [k \in {k \in DOMAIN recorded : k[1] # m} |-> recorded[k]]
    /\ UNCHANGED <<catalog, evalVars, gradeVars, runVars, analyzeVars, apiVars, navVars, lspVars>>

\* set_current_position(progress, module_id, lesson_id, exercise_id)
SetCurrentPosition ==
    /\ \E pos \in {PositionAt(catalog, idx) : idx \in Indices(catalog)} \cup {UnknownPosition} :
        progress' = set_current_position(progress, pos[1], pos[2], pos[3])
    /\ UNCHANGED <<catalog, recorded, evalVars, gradeVars, runVars, analyzeVars, apiVars, navVars, lspVars>>

\* One turn of cli.run_app with choice 1: the pointer is validated and saved,
\* the exercise is chosen, and _run_exercise grades what the learner wrote
\* ("none": nothing written), records the attempt and after a success moves
\* the pointer to the next position.
cli_turn(modules, data, outcome) ==
    LET valid == validate_current_pointer(modules, data)
        shown == current_or_pending(modules, valid)
    IN  IF shown.kind # "position" \/ outcome = "none" THEN valid
        ELSE LET after == record_attempt(valid, shown.pos[1], shown.pos[2], shown.pos[3],
                                         outcome = "ok")
                 nxt == next_position(modules, shown.pos[1], shown.pos[2], shown.pos[3])
             IN  IF outcome = "ok" /\ nxt.kind = "position"
                 THEN set_current_position(after, nxt.pos[1], nxt.pos[2], nxt.pos[3])
                 ELSE after
CliTurn ==
    /\ \E outcome \in {"ok", "fail", "none"} :
        LET valid == validate_current_pointer(catalog, progress)
            shown == current_or_pending(catalog, valid)
            records == shown.kind = "position" /\ outcome # "none"
        IN  /\ records => Cardinality(Attempts(recorded)) < MaxAttempts
            /\ progress' = cli_turn(catalog, progress, outcome)
            /\ recorded' = IF records
                           THEN Bind(recorded, shown.pos,
                                     Append(LogOf(recorded, shown.pos), outcome = "ok"))
                           ELSE recorded
    /\ UNCHANGED <<catalog, evalVars, gradeVars, runVars, analyzeVars, apiVars, navVars, lspVars>>

NextProgress == RecordAttempt \/ ResetModule \/ SetCurrentPosition \/ CliTurn
SpecProgress == InitProgress /\ [][NextProgress]_vars


(* -------------------- navigation: inputs and calls -------------------- *)
\* modules of one lesson or of MaxLessons lessons, each lesson of one exercise
\* or of MaxExercises exercises; ids are unique
NavShapes ==
    { [j \in 1..n |-> k] : n \in {1, MaxLessons}, k \in {1, MaxExercises} }
NavCatalogs ==
    UNION { { MakeCatalog(shapes) : shapes \in [1..n -> NavShapes] } : n \in 1..MaxModules }

\* the walk starts at the first exercise of the first module
InitNavigate ==
    /\ catalog \in NavCatalogs
    /\ position = Found(PositionAt(catalog, <<1, 1, 1>>))
    /\ visited = <<PositionAt(catalog, <<1, 1, 1>>)>>
    /\ progress = empty_data /\ recorded = <<>>
    /\ EvalIdle /\ GradeIdle /\ RunIdle /\ AnalyzeIdle /\ ApiIdle /\ LspIdle

\* next_position(modules, module_id, lesson_id, exercise_id) on the position held
NextPosition ==
    /\ position.kind = "position"
    /\ position' = next_position(catalog, position.pos[1], position.pos[2], position.pos[3])
    /\ visited' = IF position'.kind = "position" THEN Append(visited, position'.pos)
                  ELSE visited
    /\ UNCHANGED <<catalog, progress, recorded, evalVars, gradeVars, runVars,
                   analyzeVars, apiVars, lspVars>>

NextNavigate == NextPosition
SpecNavigate == InitNavigate /\ [][NextNavigate]_vars


(* ---------------------------- LSP client ------------------------------ *)
\* lsp holds the fields of the client object: process is the number of the
\* server process self._process refers to (0: None) and pending the ids in
\* self._pending.  waiters[id] is the queue made for request id: empty, or the
\* payload put in it.  servers[g] is process g: alive until it exits or is
\* terminated, inbox the messages written to its stdin, outbox the frames it
\* wrote to stdout that no reader has read yet, answered the ids it replied to.
\* readers[r] is the reader thread started with process r: src is the process
\* whose stdout it reads (it takes self._process when it starts to run).
\* A caller thread is [stack, ret, op]: the frames [fn, pc, method, rid, version]
\* of the methods it is in (pc: where the method goes on), what the last call
\* returned or raised, and the operation it was started for ("" before).
Callers == 1..MaxCallers
Frame(fn, pc, method, rid, version) ==
    [fn |-> fn, pc |-> pc, method |-> method, rid |-> rid, version |-> version]
Message(method, id, version) == [method |-> method, id |-> id, version |-> version]
EmptyQueue == [kind |-> "empty", id |-> 0, text |-> ""]
LspPayload(kind, id, text) == [kind |-> kind, id |-> id, text |-> text]

Top(th) == th.stack[Len(th.stack)]
Running(th, fn, pc) == th.stack # <<>> /\ Top(th).fn = fn /\ Top(th).pc = pc
goto(th, pc) == [th EXCEPT !.stack[Len(th.stack)].pc = pc]
return(th, value) ==
    [th EXCEPT !.stack = SubSeq(th.stack, 1, Len(th.stack) - 1), !.ret = value]
\* An exception leaves the frames up to the try block of _ensure_started that
\* encloses the call (lines 325-340), or ends the operation when there is none.
raise(th, exc) ==
    LET trying == {i \in 1..(Len(th.stack) - 1) :
                      th.stack[i].fn = "ensure" /\ th.stack[i].pc \in {"initialized", "done"}}
        h == CHOOSE i \in trying : \A j \in trying : j <= i
    IN  IF trying = {} THEN [th EXCEPT !.stack = <<>>, !.ret = exc]
        ELSE [th EXCEPT !.stack = [SubSeq(th.stack, 1, h) EXCEPT ![h].pc = "except"],
                        !.ret = exc]

\* _send: what the write to self._process.stdin does ("sent", or the exception)
send_outcome(client, procs) ==
    IF client.process = 0 THEN "RuntimeError"
    ELSE IF ~procs[client.process].alive THEN "BrokenPipeError"
    ELSE "sent"
deliver(procs, g, msg) == [procs EXCEPT ![g].inbox = Append(@, msg)]

\* shutdown(): terminate the process, forget it and the open document
shutdown(client) ==
    IF client.process = 0 THEN client
    ELSE [client EXCEPT !.process = 0, !.document_opened = FALSE]
terminate(procs, g) == IF g = 0 THEN procs ELSE [procs EXCEPT ![g].alive = FALSE]

\* _flush_pending_with_error: every waiter in the table gets an error payload
flush_pending(client) == [client EXCEPT !.pending = {}]
flushed_waiters(w, ids) ==
    [id \in DOMAIN w |-> IF id \in ids THEN LspPayload("error", 0, "stream closed") ELSE w[id]]


(* --------------------- LSP client: threads and calls ------------------ *)
NewThread == [stack |-> <<>>, ret |-> "", op |-> "", calls |-> 0]
NewServer == [alive |-> TRUE, inbox |-> <<>>, outbox |-> <<>>, answered |-> {}]
NewReader == [pc |-> "new", src |-> 0, failed |-> {}]
\* a call of _notify or _request starts with _ensure_started
ensure_then(fn, pc, method, version) ==
    <<Frame(fn, pc, method, 0, version), Frame("ensure", "check", "", 0, 0)>>
call_ensured(th, pc, fn, method, version) ==
    [th EXCEPT !.stack = goto(th, pc).stack \o
                         ensure_then(fn, IF fn = "notify" THEN "send" ELSE "register",
                                     method, version)]
\* the steps of a caller that touch nothing shared run with the step before them:
\* the return of _sync_document, the request of complete / hover and its
\* return, and in _ensure_started the initialized notification and return True
local_step(th) ==
    IF th.stack = <<>> THEN th
    ELSE CASE Running(th, "sync", "ret") -> return(th, "none")
           [] Running(th, "complete", "request") ->
                call_ensured(th, "finish", "request", Top(th).method, 0)
           [] Running(th, "complete", "finish") -> [th EXCEPT !.stack = <<>>, !.ret = "ok"]
           [] Running(th, "ensure", "initialized") ->
                call_ensured(th, "done", "notify", "initialized", 0)
           [] Running(th, "ensure", "done") -> return(th, "true")
           [] OTHER -> th
resume(th) == local_step(local_step(local_step(th)))
LspRest == <<evalVars, gradeVars, runVars, analyzeVars, apiVars, progressVars, navVars>>

InitLsp ==
    /\ lsp = NewClient
    /\ waiters = <<>> /\ readers = <<>> /\ servers = <<>> /\ requests = <<>>
    /\ threads = [t \in Callers |-> NewThread]
    /\ EvalIdle /\ GradeIdle /\ RunIdle /\ AnalyzeIdle /\ ApiIdle /\ ProgressIdle /\ NavIdle

\* complete(code, line, column) or hover(code, line, column) is called:
\* _sync_document counts the version up (line 422)
StartRequestOp(t) ==
    /\ threads[t].stack = <<>> /\ threads[t].calls < MaxCalls
    /\ \A u \in Callers : u < t => threads[u].calls > 0
    /\ \E m \in {"textDocument/completion", "textDocument/hover"} :
        threads' = [threads EXCEPT ![t] =
                        [stack |-> <<Frame("complete", "request", m, 0, 0),
                                     Frame("sync", "test", "", 0, 0)>>,
                         ret |-> "", op |-> m, calls |-> threads[t].calls + 1]]
    /\ lsp' = [lsp EXCEPT !.document_version = @ + 1]
    /\ UNCHANGED <<waiters, readers, servers, requests, LspRest>>

\* VscodeApi.close(): shutdown()
StartClose(t) ==
    /\ threads[t].stack = <<>> /\ threads[t].calls < MaxCalls
    /\ \A u \in Callers : u < t => threads[u].calls > 0
    /\ threads' = [threads EXCEPT ![t] = [stack |-> <<>>, ret |-> "none", op |-> "close",
                                          calls |-> threads[t].calls + 1]]
    /\ servers' = terminate(servers, lsp.process)
    /\ lsp' = shutdown(lsp)
    /\ UNCHANGED <<waiters, readers, requests, LspRest>>

\* _sync_document, lines 423-443: didOpen for a document not opened, else didChange
SyncTest(t) ==
    /\ Running(threads[t], "sync", "test")
    /\ LET th == threads[t]
           version == lsp.document_version
       IN  threads' = [threads EXCEPT ![t] =
                IF ~lsp.document_opened
                THEN call_ensured(th, "mark", "notify", "textDocument/didOpen", version)
                ELSE call_ensured(th, "ret", "notify", "textDocument/didChange", version)]
    /\ UNCHANGED <<lsp, waiters, readers, servers, requests, LspRest>>

\* _sync_document, lines 435-436
SyncMark(t) ==
    /\ Running(threads[t], "sync", "mark")
    /\ lsp' = [lsp EXCEPT !.document_opened = TRUE]
    /\ threads' = [threads EXCEPT ![t] = resume(return(threads[t], "none"))]
    /\ UNCHANGED <<waiters, readers, servers, requests, LspRest>>

\* _ensure_started, line 309: the process is there and running
EnsureAlive(t) ==
    /\ Running(threads[t], "ensure", "check")
    /\ lsp.process # 0 /\ servers[lsp.process].alive
    /\ threads' = [threads EXCEPT ![t] = return(threads[t], "true")]
    /\ UNCHANGED <<lsp, waiters, readers, servers, requests, LspRest>>

\* lines 312-314: pyright-langserver is not installed
EnsureNoCommand(t) ==
    /\ Running(threads[t], "ensure", "check")
    /\ ~(lsp.process # 0 /\ servers[lsp.process].alive)
    /\ threads' = [threads EXCEPT ![t] = return(threads[t], "false")]
    /\ UNCHANGED <<lsp, waiters, readers, servers, requests, LspRest>>

\* lines 321-323: Popen raises
EnsurePopenFails(t) ==
    /\ Running(threads[t], "ensure", "check")
    /\ ~(lsp.process # 0 /\ servers[lsp.process].alive)
    /\ lsp' = [lsp EXCEPT !.process = 0]
    /\ threads' = [threads EXCEPT ![t] = return(threads[t], "false")]
    /\ UNCHANGED <<waiters, readers, servers, requests, LspRest>>

\* lines 315-335: a process and its reader thread are started, and the
\* initialize request begins
EnsureSpawn(t) ==
    /\ Running(threads[t], "ensure", "check")
    /\ ~(lsp.process # 0 /\ servers[lsp.process].alive)
    /\ Len(servers) < MaxProcesses
    /\ servers' = Append(servers, NewServer)
    /\ readers' = Append(readers, NewReader)
    /\ lsp' = [lsp EXCEPT !.process = Len(servers) + 1]
    /\ threads' = [threads EXCEPT ![t] =
                        call_ensured(threads[t], "initialized", "request", "initialize", 0)]
    /\ UNCHANGED <<waiters, requests, LspRest>>

\* lines 338-340: the handshake raised
EnsureExcept(t) ==
    /\ Running(threads[t], "ensure", "except")
    /\ servers' = terminate(servers, lsp.process)
    /\ lsp' = shutdown(lsp)
    /\ threads' = [threads EXCEPT ![t] = return(threads[t], "false")]
    /\ UNCHANGED <<waiters, readers, requests, LspRest>>

\* _notify: lines 416-418
NotifySend(t) ==
    /\ Running(threads[t], "notify", "send")
    /\ LET th == threads[t]
           out == IF th.ret = "false" THEN "RuntimeError" ELSE send_outcome(lsp, servers)
       IN  /\ threads' = [threads EXCEPT ![t] =
                            IF out = "sent" THEN resume(return(th, "none"))
                            ELSE raise(th, out)]
           /\ servers' = IF out = "sent"
                         THEN deliver(servers, lsp.process,
                                      Message(Top(th).method, 0, Top(th).version))
                         ELSE servers
    /\ UNCHANGED <<lsp, waiters, readers, requests, LspRest>>

\* _request, lines 395-401: no server, or an id and a queue under the lock
RequestRegister(t) ==
    /\ Running(threads[t], "request", "register")
    /\ LET th == threads[t]
           rid == lsp.next_id
           issued == IF rid \in DOMAIN requests THEN requests[rid].issued ELSE 0
       IN  IF th.ret = "false"
           THEN /\ threads' = [threads EXCEPT ![t] = raise(th, "RuntimeError")]
                /\ UNCHANGED <<lsp, waiters, requests>>
           ELSE /\ lsp' = [lsp EXCEPT !.next_id = @ + 1, !.pending = @ \cup {rid}]
                /\ waiters' = Bind(waiters, rid, EmptyQueue)
                /\ requests' = Bind(requests, rid,
                                    [method |-> Top(th).method, state |-> "waiting",
                                     with |-> "", id |-> 0, issued |-> issued + 1])
                /\ threads' = [threads EXCEPT ![t] =
                                    [th EXCEPT !.stack[Len(th.stack)].pc = "send",
                                               !.stack[Len(th.stack)].rid = rid]]
    /\ UNCHANGED <<readers, servers, LspRest>>

\* _request, line 402: the request is written to the server
RequestSend(t) ==
    /\ Running(threads[t], "request", "send")
    /\ LET th == threads[t]
           rid == Top(th).rid
           out == send_outcome(lsp, servers)
       IN  IF out = "sent"
           THEN /\ servers' = deliver(servers, lsp.process, Message(Top(th).method, rid, 0))
                /\ threads' = [threads EXCEPT ![t] = goto(th, "wait")]
                /\ UNCHANGED requests
           ELSE /\ threads' = [threads EXCEPT ![t] = raise(th, out)]
                /\ requests' = [requests EXCEPT ![rid].state = "raised", ![rid].with = out]
                /\ UNCHANGED servers
    /\ UNCHANGED <<lsp, waiters, readers, LspRest>>

\* _request, lines 403-412: the queue holds a payload
RequestReceive(t) ==
    /\ Running(threads[t], "request", "wait")
    /\ LET th == threads[t]
           rid == Top(th).rid
           got == waiters[rid]
       IN  /\ got.kind # "empty"
           /\ IF got.kind = "error"
              THEN /\ threads' = [threads EXCEPT ![t] = raise(th, "RuntimeError")]
                   /\ requests' = [requests EXCEPT ![rid].state = "raised",
                                                   ![rid].with = "RuntimeError"]
              ELSE /\ threads' = [threads EXCEPT ![t] = resume(return(th, "response"))]
                   /\ requests' = [requests EXCEPT ![rid].state = "returned",
                                                   ![rid].with = "response",
                                                   ![rid].id = got.id]
    /\ UNCHANGED <<lsp, waiters, readers, servers, LspRest>>

\* _request, lines 405-408: nothing came within the timeout
RequestTimeout(t) ==
    /\ Running(threads[t], "request", "wait")
    /\ LET th == threads[t]
           rid == Top(th).rid
       IN  /\ waiters[rid].kind = "empty"
           /\ lsp' = [lsp EXCEPT !.pending = @ \ {rid}]
           /\ threads' = [threads EXCEPT ![t] = raise(th, "RuntimeError")]
           /\ requests' = [requests EXCEPT ![rid].state = "raised",
                                           ![rid].with = "RuntimeError"]
    /\ UNCHANGED <<waiters, readers, servers, LspRest>>

\* _reader_loop, lines 346-349: the thread takes the process of the moment
ReaderStart(r) ==
    /\ readers[r].pc = "new"
    /\ readers' = [readers EXCEPT ![r].src = lsp.process,
                                  ![r].pc = IF lsp.process = 0 THEN "exited" ELSE "reading"]
    /\ UNCHANGED <<lsp, waiters, threads, servers, requests, LspRest>>

\* lines 351-381: a frame is read and handed to the request that waits for its id
ReaderDispatch(r) ==
    /\ readers[r].pc = "reading"
    /\ servers[readers[r].src].outbox # <<>>
    /\ LET g == readers[r].src
           p == Head(servers[g].outbox)
       IN  /\ servers' = [servers EXCEPT ![g].outbox = Tail(@)]
           /\ IF p.id \in lsp.pending
              THEN /\ lsp' = [lsp EXCEPT !.pending = @ \ {p.id}]
                   /\ waiters' = [waiters EXCEPT ![p.id] = p]
              ELSE UNCHANGED <<lsp, waiters>>
    /\ UNCHANGED <<threads, readers, requests, LspRest>>

\* lines 356-358: the stream is at its end; every pending request is failed
ReaderEof(r) ==
    /\ readers[r].pc = "reading"
    /\ servers[readers[r].src].outbox = <<>>
    /\ ~servers[readers[r].src].alive
    /\ readers' = [readers EXCEPT ![r].pc = "exited", ![r].failed = lsp.pending]
    /\ waiters' = flushed_waiters(waiters, lsp.pending)
    /\ lsp' = flush_pending(lsp)
    /\ UNCHANGED <<threads, servers, requests, LspRest>>

\* the server answers the oldest request it has not answered, with a result
\* or an error
ServerRespond(g) ==
    /\ servers[g].alive
    /\ \E i \in 1..Len(servers[g].inbox), kind \in {"result", "error"} :
        LET msg == servers[g].inbox[i] IN
        /\ msg.id # 0 /\ msg.id \notin servers[g].answered
        /\ \A j \in 1..(i - 1) :
                servers[g].inbox[j].id = 0 \/ servers[g].inbox[j].id \in servers[g].answered
        /\ servers' = [servers EXCEPT ![g].outbox = Append(@, LspPayload(kind, msg.id, "")),
                                      ![g].answered = @ \cup {msg.id}]
    /\ UNCHANGED <<lsp, waiters, threads, readers, requests, LspRest>>

\* the server process exits on its own
ServerExit(g) ==
    /\ servers[g].alive
    /\ servers' = [servers EXCEPT ![g].alive = FALSE]
    /\ UNCHANGED <<lsp, waiters, threads, readers, requests, LspRest>>

CallerStep(t) ==
    \/ StartRequestOp(t) \/ StartClose(t)
    \/ SyncTest(t) \/ SyncMark(t)
    \/ EnsureAlive(t) \/ EnsureNoCommand(t) \/ EnsurePopenFails(t) \/ EnsureSpawn(t)
    \/ EnsureExcept(t)
    \/ NotifySend(t)
    \/ RequestRegister(t) \/ RequestSend(t) \/ RequestReceive(t) \/ RequestTimeout(t)
ReaderStep(r) == ReaderStart(r) \/ ReaderDispatch(r) \/ ReaderEof(r)
ServerStep(g) == ServerRespond(g) \/ ServerExit(g)
NextLsp ==
    \/ \E t \in Callers : CallerStep(t)
    \/ \E r \in 1..Len(readers) : ReaderStep(r)
    \/ \E g \in 1..Len(servers) : ServerStep(g)
SpecLsp == InitLsp /\ [][NextLsp]_vars

(* ------------------------- evaluator: claims -------------------------- *)
\* the verdict of iteration j of call r when it is run by itself on the bindings
\* the iterations before it left
Replayed(r, j) ==
    check_one(checks[j], r.trace[j].pre, captured_out, accepted_vars,
              output_has_expected(checks, captured_out))
MapNotes(r) == {i \in 1..Len(r.notes) : r.notes[i].kind = "map_note"}
MapChecks(r) ==
    {j \in 1..Len(r.trace) :
        /\ checks[j].type = "list_close"
        /\ r.trace[j].resolved # ""
        /\ r.trace[j].pre[r.trace[j].resolved].k = "map"}
\* the bindings no iteration of call r resolved are the objects the call was given
Untouched(r) ==
    \A name \in DOMAIN r.lv :
        (\A j \in 1..Len(r.trace) : r.trace[j].resolved # name)
            => (Len(r.trace) >= 1 => r.lv[name] = r.trace[1].pre[name])

\* C1: the evaluator runs the checks in declaration order and stops at the first
\* one that fails: the iterations that ran are checks 1..k in order, every one
\* before the k-th passed, a failure's message is the k-th check's own, a pass ran
\* them all, and nothing past the k-th check was touched (a map bound to a name only
\* a later check names is not consumed and adds no note).
C1_FailFast ==
    \A c \in 1..Len(evalResults) :
        LET r == evalResults[c]
            k == Len(r.trace)
        IN  /\ \A j \in 1..k : r.trace[j].idx = j
            /\ \A j \in 1..k : j < k => (r.trace[j].ok /\ Replayed(r, j).ok)
            /\ (~r.ok /\ ~r.raised) =>
                    /\ k >= 1
                    /\ ~Replayed(r, k).ok
                    /\ r.message = Replayed(r, k).msg
            /\ r.ok => k = Len(checks)
            /\ Untouched(r)
            /\ Cardinality(MapNotes(r)) = Cardinality(MapChecks(r))

\* C1 witness: the first of two checks failed and the second, a list_close on a
\* name bound to a map object, was not run: the map still holds its elements
C1_Witness ==
    /\ Len(evalResults) = 1
    /\ Len(checks) = 2
    /\ ~evalResults[1].ok /\ ~evalResults[1].raised
    /\ Len(evalResults[1].trace) = 1
    /\ checks[2].type = "list_close" /\ checks[2].var = "out"
    /\ "out" \in DOMAIN local_vars
    /\ local_vars["out"] = MapVal(<<Num(10), Num(20)>>, FALSE)
    /\ evalResults[1].notes = <<>>

\* C9: two calls in a row on the same checks, binding set and captured output
\* return the same verdict and the same message.
C9_Idempotent ==
    Len(evalResults) = 2 =>
        /\ evalResults[2].raised = evalResults[1].raised
        /\ evalResults[2].ok = evalResults[1].ok
        /\ evalResults[2].message = evalResults[1].message

(* -------------------------- grading: claims --------------------------- *)
RejectedOps == {"import", "global", "dunder_name", "dunder_attr", "banned_call"}
\* the source does not parse, or parses and holds a construct the strict policy bans
StrictlyRejected(c) ==
    \/ c.parse = "syntax"
    \/ c.parse = "ok" /\ \E i \in 1..Len(c.stmts) : c.stmts[i].op \in RejectedOps
NeverRan(r) == ~r.executed /\ r.locals = <<>> /\ r.checksRun = 0

\* C2: a source the strict analyzer rejects (any source that parses and holds an
\* import statement among them) is not executed: validate_user_code returns a
\* result with empty stdout, no binding has been produced, no check has been
\* evaluated and the exercise's setup objects are as they were.
C2_RejectedBeforeExecution ==
    \A c \in 1..Len(gradeResults) :
        StrictlyRejected(code) =>
            /\ ~gradeResults[c].raised
            /\ gradeResults[c].status \in {"error", "fail"}
            /\ gradeResults[c].stdout = <<>>
            /\ NeverRan(gradeResults[c])
            /\ gradeResults[c].setup = exercise.setup

\* C2 witness: a clean source that prints and then imports was graded and blocked
C2_Witness ==
    /\ Len(gradeResults) = 1
    /\ code.parse = "ok" /\ code.lines = <<"clean", "clean">>
    /\ Len(code.stmts) = 2
    /\ code.stmts[1].op = "print" /\ code.stmts[2].op = "import"
    /\ gradeResults[1].outcome = "Blocked"
    /\ gradeResults[1].message.kind = "import"
    /\ gradeResults[1].stdout = <<>>

IsPrefix(s, t) == Len(s) <= Len(t) /\ \A i \in 1..Len(s) : s[i] = t[i]
\* C3: every grading call goes through Parsed, SafetyChecked, Executed, Graded in
\* that order, each at most once, and ends in one of Blocked, SyntaxError,
\* RuntimeError, Fail, Pass.
C3_StagesAndOutcomes ==
    \A c \in 1..Len(gradeResults) :
        /\ IsPrefix(gradeResults[c].stages, AllStages)
        /\ ~gradeResults[c].raised
        /\ gradeResults[c].outcome \in
                {"Blocked", "SyntaxError", "RuntimeError", "Fail", "Pass"}

\* C4: validate_user_code returns a result with a status and a message on every
\* path: no exception reaches the caller, also not from the evaluation of the checks.
C4_NoExceptionEscapes ==
    \A c \in 1..Len(gradeResults) :
        /\ ~gradeResults[c].raised
        /\ gradeResults[c].status \in {"ok", "fail", "error"}

SameVerdict(r1, r2) ==
    /\ r1.raised = r2.raised /\ r1.status = r2.status
    /\ r1.message = r2.message /\ r1.notes = r2.notes
\* C10: a grading call leaves the exercise descriptor as it found it, and grading
\* the same code against the same exercise object again gives the same status and
\* message.
C10_ExerciseReadOnly ==
    [][ /\ exercise' = exercise
        /\ Len(gradeResults') = 2 => SameVerdict(gradeResults'[1], gradeResults'[2])
      ]_vars

(* ---------------------- process executor: claims ---------------------- *)
Called == runResult # NoRun
\* the source parses and some import, from-import or __import__("...") of it names
\* a module whose root is on the denylist
HasBlockedImport(c) ==
    /\ c.parse = "ok"
    /\ \E i \in 1..Len(c.nodes) :
        /\ c.nodes[i].kind \in {"import", "from", "dyn_const"}
        /\ \E j \in 1..Len(c.nodes[i].names) :
            /\ c.nodes[i].names[j] # <<>>
            /\ c.nodes[i].names[j][1] \in BLOCKED_MODULES
\* how the child of the call ended
ChildEnds(ch) ==
    (IF ch.fate = "overrun" THEN {"timeout_elapsed"} ELSE {})
    \cup (IF ch.fate = "ended" /\ ch.rc < 0 THEN {"signal"} ELSE {})
    \cup (IF ch.fate = "ended" /\ ch.rc > 0 THEN {"nonzero_exit"} ELSE {})
    \cup (IF ch.fate = "ended" /\ ch.rc = 0 THEN {"zero_exit"} ELSE {})
LastOf(stderr, S) == stderr[CHOOSE i \in S : \A j \in S : j <= i]
NonEmptyLines(stderr) == {i \in 1..Len(stderr) : stderr[i] # ""}
NonBlankLines(stderr) == {i \in 1..Len(stderr) : stderr[i] \notin {"", " "}}

\* C5: run_user_code never raises: whatever the input and the host, it returns a
\* result whose status is ok, error, timeout or blocked.
C5_NeverRaises ==
    Called =>
        /\ runResult.phase = "returned"
        /\ runResult.status \in {"ok", "error", "timeout", "blocked"}

\* C6 as stated: in every run that is not blocked exactly one of the four ways a
\* child ends applies and fixes the status, and a non-zero exit gives the last
\* non-empty line of stderr as the message.
C6_StatusByChildEnd_Stated ==
    (Called /\ ~HasBlockedImport(run.code)) =>
        /\ Cardinality(ChildEnds(runResult.child)) = 1
        /\ "timeout_elapsed" \in ChildEnds(runResult.child) =>
                runResult.status = "timeout" /\ runResult.message.kind = "timeout"
        /\ "signal" \in ChildEnds(runResult.child) =>
                runResult.status = "timeout" /\ runResult.message.kind = "resource_limit"
        /\ "zero_exit" \in ChildEnds(runResult.child) => runResult.status = "ok"
        /\ "nonzero_exit" \in ChildEnds(runResult.child) =>
                /\ runResult.status = "error"
                /\ NonEmptyLines(runResult.child.stderr) # {}
                /\ runResult.message.text =
                        LastOf(runResult.child.stderr, NonEmptyLines(runResult.child.stderr))

\* C6, amended: in every run whose child process was started exactly one of the
\* four ways a child ends applies and fixes the status: timeout elapsed gives
\* timeout, a signal gives timeout with the resource-limit message, exit code zero
\* gives ok, and a non-zero exit gives error with the last line of stderr that is
\* not blank as the message, or the default message when stderr has no such line.
C6_StatusByChildEnd ==
    (Called /\ runResult.children = 1) =>
        /\ Cardinality(ChildEnds(runResult.child)) = 1
        /\ "timeout_elapsed" \in ChildEnds(runResult.child) =>
                runResult.status = "timeout" /\ runResult.message.kind = "timeout"
        /\ "signal" \in ChildEnds(runResult.child) =>
                runResult.status = "timeout" /\ runResult.message.kind = "resource_limit"
        /\ "zero_exit" \in ChildEnds(runResult.child) =>
                runResult.status = "ok" /\ runResult.message.kind = "completed"
        /\ "nonzero_exit" \in ChildEnds(runResult.child) =>
                /\ runResult.status = "error"
                /\ runResult.message =
                        IF NonBlankLines(runResult.child.stderr) = {}
                        THEN RunMsg("default_error", "")
                        ELSE RunMsg("stderr_line",
                                    LastOf(runResult.child.stderr,
                                           NonBlankLines(runResult.child.stderr)))

\* C6 witness: the child exited with a non-zero code and two error lines on stderr,
\* and the message is the second
C6_Witness ==
    /\ Called
    /\ runResult.children = 1
    /\ runResult.child.fate = "ended" /\ runResult.child.rc = 2
    /\ runResult.child.stderr = <<"E1", "E2">>
    /\ runResult.status = "error"
    /\ runResult.message = RunMsg("stderr_line", "E2")

\* C7: when the child has not finished within timeout_s the call returns timeout,
\* and once it has returned neither the child nor a process the child started is
\* still running.
C7_TimeoutLeavesNoProcess ==
    (Called /\ runResult.child.fate = "overrun") =>
        /\ runResult.phase = "returned"
        /\ runResult.status = "timeout"
        /\ runResult.alive = {}

\* C8 as stated: at most one spawn per call; a denylisted import gives blocked with
\* empty stdout and stderr and no process; every other call spawns exactly one
\* child process.
C8_OneSpawn_Stated ==
    Called =>
        /\ runResult.attempts <= 1 /\ runResult.children <= 1
        /\ HasBlockedImport(run.code) =>
                /\ runResult.status = "blocked"
                /\ runResult.stdout = <<>> /\ runResult.stderr = <<>>
                /\ runResult.attempts = 0 /\ runResult.children = 0
        /\ ~HasBlockedImport(run.code) => runResult.children = 1

\* C8, amended: at most one spawn attempt per call and never a second; a
\* denylisted import gives blocked with empty stdout and stderr and no attempt;
\* every other call makes exactly one attempt, except that it makes none when
\* preparing the scratch directory fails, and the attempt starts exactly one child
\* process unless the interpreter cannot be started.
C8_OneSpawn ==
    Called =>
        /\ runResult.attempts <= 1 /\ runResult.children <= runResult.attempts
        /\ HasBlockedImport(run.code) =>
                /\ runResult.status = "blocked"
                /\ runResult.stdout = <<>> /\ runResult.stderr = <<>>
                /\ runResult.attempts = 0 /\ runResult.children = 0
        /\ ~HasBlockedImport(run.code) =>
                /\ runResult.attempts = (IF run.host.sandbox_ok THEN 1 ELSE 0)
                /\ runResult.children =
                        (IF run.host.sandbox_ok /\ run.host.spawn_ok THEN 1 ELSE 0)

\* C8 witness: a source whose second import is a from-import of a denylisted
\* module was blocked and nothing was spawned
C8_Witness ==
    /\ Called
    /\ Len(run.code.nodes) = 2
    /\ run.code.nodes[1] = Node("import", << <<"multiprocessing">> >>)
    /\ run.code.nodes[2] = Node("from", << <<"subprocess">> >>)
    /\ runResult.status = "blocked"
    /\ runResult.message = RunMsg("blocked", "subprocess")
    /\ runResult.attempts = 0

(* ------------------- evaluator: variable resolution ------------------- *)
\* the aliases of the exercise that are bound, by their place in the list
BoundAliases(lv, alts) == {i \in 1..Len(alts) : alts[i] \in DOMAIN lv}
FirstOf(S) == CHOOSE i \in S : \A j \in S : i <= j
\* the check at place i of the first call: what it started from and what it did
Step(i) == evalResults[1].trace[i]
Ran1(i) == Len(evalResults) >= 1 /\ i <= Len(evalResults[1].trace)
\* the value satisfies the check
Satisfies(value, check) ==
    IF check.type = "equals" THEN value = check.expected
    ELSE /\ value.k \in {"list", "tuple", "map"}
         /\ Len(value.items) = Len(check.expected.items)
         /\ \A j \in 1..Len(value.items) :
                /\ value.items[j].num
                /\ Abs(value.items[j].v - check.expected.items[j].v) <= AbsTol

\* C11: for an equals or list_close check the declared name is used when it is
\* bound, whatever aliases are bound; otherwise the first bound name of
\* accepted_vars, in list order; the variable is missing only when neither the
\* declared name nor any alias is bound.  The check is decided on the value of
\* the name that was chosen.
C11_VarResolution ==
    \A i \in 1..Len(checks) :
        (Ran1(i) /\ checks[i].type \in {"equals", "list_close"}) =>
            /\ checks[i].var \in DOMAIN Step(i).pre =>
                    Step(i).resolved = checks[i].var
            /\ (checks[i].var \notin DOMAIN Step(i).pre
                    /\ BoundAliases(Step(i).pre, accepted_vars) # {}) =>
                    Step(i).resolved =
                        accepted_vars[FirstOf(BoundAliases(Step(i).pre, accepted_vars))]
            /\ (checks[i].var \notin DOMAIN Step(i).pre
                    /\ BoundAliases(Step(i).pre, accepted_vars) = {}) =>
                    /\ Step(i).resolved = ""
                    /\ ~Step(i).ok
                    /\ Step(i).msg.kind \in {"not_created", "store_under_name"}
            /\ (Step(i).resolved # "" /\ ~Step(i).raised) =>
                    (Step(i).ok <=> Satisfies(Step(i).pre[Step(i).resolved], checks[i]))

\* C11 witness: "total" is not bound, both aliases are, with different values, and
\* the check passed on the one that comes first in accepted_vars
C11_Witness ==
    /\ Ran1(1)
    /\ checks[1].type = "equals"
    /\ accepted_vars = <<"resultado", "suma">>
    /\ DOMAIN Step(1).pre = {"suma", "resultado"}
    /\ Step(1).pre["resultado"] = IntVal(6)
    /\ Step(1).pre["suma"] = IntVal(7)
    /\ Step(1).resolved = "resultado"
    /\ evalResults[1].ok

(* --------------------- grading: the binding set ----------------------- *)
\* the source is accepted and runs to its end without touching any of the names:
\* it prints, or assigns to other names
LeavesAlone(c, names) ==
    /\ \A l \in 1..Len(c.lines) : c.lines[l] = "clean"
    /\ c.parse = "ok"
    /\ \A i \in 1..Len(c.stmts) :
        \/ c.stmts[i].op = "print"
        \/ c.stmts[i].op = "assign" /\ c.stmts[i].var \notin names
\* the declared name and the aliases of the exercise
NamesOf(check, ex) == {check.var} \cup {ex.accepted_vars[i] : i \in 1..Len(ex.accepted_vars)}
\* the setup variable the check falls on when the learner binds none of its names
SetupNameFor(check, ex) ==
    IF check.var \in DOMAIN ex.setup THEN check.var
    ELSE IF BoundAliases(ex.setup, ex.accepted_vars) = {} THEN ""
    ELSE ex.accepted_vars[FirstOf(BoundAliases(ex.setup, ex.accepted_vars))]
PassesOnSetup(check, ex) ==
    /\ check.type \in {"equals", "list_close"}
    /\ SetupNameFor(check, ex) # ""
    /\ Satisfies(ex.setup[SetupNameFor(check, ex)], check)

\* C12: the checks are resolved in a binding set that holds the injected setup
\* variables: when the learner's code binds neither the declared name nor an alias
\* of any check, and each check's declared name or first bound alias is a setup
\* variable whose injected value satisfies it, the grading passes.
C12_SetupBindingsResolve ==
    ( /\ Len(gradeResults) >= 1
      /\ exercise.checks # <<>> /\ exercise.custom = "none"
      /\ \A i \in 1..Len(exercise.checks) :
            /\ PassesOnSetup(exercise.checks[i], exercise)
            /\ LeavesAlone(code, NamesOf(exercise.checks[i], exercise)) )
    => /\ ~gradeResults[1].raised
       /\ gradeResults[1].status = "ok"
       /\ gradeResults[1].checksRun = Len(exercise.checks)
       /\ \A n \in DOMAIN exercise.setup :
            n \in DOMAIN gradeResults[1].locals
                /\ gradeResults[1].locals[n] = exercise.setup[n]

\* C12 witness: the code only prints, the check is on "result", and it passed on
\* the setup variable "datos", an alias of the exercise
C12_Witness ==
    /\ Len(gradeResults) = 1
    /\ Len(code.stmts) = 1 /\ code.stmts[1].op = "print"
    /\ DOMAIN exercise.setup = {"datos"}
    /\ exercise.accepted_vars = <<"out", "datos">>
    /\ Len(exercise.checks) = 1
    /\ exercise.checks[1].type = "list_close" /\ exercise.checks[1].var = "result"
    /\ "result" \notin DOMAIN gradeResults[1].locals
    /\ gradeResults[1].status = "ok"

(* ------------------ evaluator: the missing variable ------------------- *)
\* some output_contains check of the list, wherever it stands, expects a text
\* that is not empty and that the captured output holds
OutputShowsExpected ==
    \E j \in 1..Len(checks) :
        /\ checks[j].type = "output_contains"
        /\ checks[j].text # <<>>
        /\ \E k \in 1..Len(captured_out) :
                /\ k + Len(checks[j].text) - 1 <= Len(captured_out)
                /\ SubSeq(captured_out, k, k + Len(checks[j].text) - 1) = checks[j].text
Unresolved(i) ==
    /\ checks[i].type \in {"equals", "list_close"}
    /\ checks[i].var \notin DOMAIN Step(i).pre
    /\ BoundAliases(Step(i).pre, accepted_vars) = {}

\* C13: an equals or list_close check whose variable resolves to no binding fails,
\* with the "stored under the required name" message exactly when some
\* output_contains check of the list has a non-empty expected text that the
\* captured output contains, and with the "variable not created" message otherwise;
\* the message names the declared variable and is the one the evaluator returns.
C13_MissingVariableMessage ==
    \A i \in 1..Len(checks) :
        (Ran1(i) /\ Unresolved(i)) =>
            /\ ~evalResults[1].raised /\ ~evalResults[1].ok
            /\ evalResults[1].message = Step(i).msg
            /\ Step(i).msg.var = checks[i].var
            /\ Step(i).msg.kind =
                    IF OutputShowsExpected THEN "store_under_name" ELSE "not_created"

\* C13 witness: "result" is not bound, the output holds the "6" that the
\* output_contains check after the equals check expects, and the equals check
\* failed with the "stored under the required name" message
C13_Witness ==
    /\ Len(evalResults) = 1
    /\ Len(checks) = 2
    /\ checks[1].type = "equals" /\ checks[1].var = "result"
    /\ checks[2].type = "output_contains" /\ checks[2].text = <<"6">>
    /\ local_vars = <<>>
    /\ captured_out = <<"1", "6", "\n">>
    /\ evalResults[1].message.kind = "store_under_name"
    /\ Len(evalResults[1].trace) = 1

(* -------------------- evaluator: list comparison ---------------------- *)
\* the value the first check of the first call found under "result"
Got == Step(1).pre["result"]
Wanted == checks[1].expected.items
\* a list, a tuple, or a map object that yields all its elements
IsSequence(value) ==
    \/ value.k \in {"list", "tuple"}
    \/ value.k = "map" /\ ~value.raises
AllNumbers(items) == \A j \in 1..Len(items) : items[j].num

\* C14: a list_close check on a sequence whose number of elements differs from
\* the expected one fails with the length message, which names the expected and
\* the actual length, and no pair of elements is compared (an element that is not
\* a number is not even converted).
C14_LengthMismatch ==
    (Ran1(1) /\ checks[1].type = "list_close" /\ "result" \in DOMAIN Step(1).pre
        /\ IsSequence(Got) /\ Len(Got.items) # Len(Wanted)) =>
            /\ ~evalResults[1].raised /\ ~evalResults[1].ok
            /\ evalResults[1].message.kind = "length"
            /\ evalResults[1].message.a = Len(Wanted)
            /\ evalResults[1].message.b = Len(Got.items)
            /\ ~Step(1).compared

\* C14 witness: one element, not a number, against two expected numbers: the
\* check failed on the lengths 2 and 1
C14_Witness ==
    /\ Len(evalResults) = 1
    /\ Ran1(1)
    /\ Got = ListVal(<<NotNum>>)
    /\ Wanted = <<Num(10), Num(1000000)>>
    /\ evalResults[1].message.kind = "length"
    /\ evalResults[1].message.a = 2 /\ evalResults[1].message.b = 1

\* C15: two sequences of numbers of the same length are accepted when every pair
\* of corresponding elements differs by at most 1e-6, and rejected with the
\* tolerance message when some pair differs by more, whatever the magnitude of
\* the numbers.
C15_AbsoluteTolerance ==
    (Ran1(1) /\ checks[1].type = "list_close" /\ "result" \in DOMAIN Step(1).pre
        /\ IsSequence(Got) /\ Len(Got.items) = Len(Wanted) /\ AllNumbers(Got.items)) =>
            /\ ~evalResults[1].raised
            /\ evalResults[1].ok <=>
                    \A j \in 1..Len(Wanted) : Abs(Got.items[j].v - Wanted[j].v) <= 1
            /\ ~evalResults[1].ok => evalResults[1].message.kind = "tolerance"

\* C15 witness: 1.000001 and 0.000011 against 1.0 and 0.00001, each 1e-6 away,
\* were accepted
C15_Witness ==
    /\ Len(evalResults) = 1
    /\ Ran1(1)
    /\ Got = ListVal(<<Num(1000001), Num(11)>>)
    /\ Wanted = <<Num(1000000), Num(10)>>
    /\ evalResults[1].ok
    /\ Step(1).compared

\* what the comparison of the eager list of the same elements gives
SameAsEagerList(r, step) ==
    /\ r.raised = list_close(ListVal(Got.items), Wanted).raised
    /\ r.ok = list_close(ListVal(Got.items), Wanted).ok
    /\ ~r.raised => step.msg.kind =
            (IF r.ok THEN "pass" ELSE list_close(ListVal(Got.items), Wanted).kind)
IsMapChecked ==
    /\ Ran1(1) /\ checks[1].type = "list_close" /\ "result" \in DOMAIN Step(1).pre
    /\ Got.k = "map" /\ ~Got.raises

\* C16 as stated: a map object bound to the variable of a list_close check is
\* materialized, the verdict is that of the eager list of the same elements, and
\* the notes gain one advisory entry.
C16_LazySequence_Stated ==
    IsMapChecked =>
        /\ SameAsEagerList(evalResults[1], Step(1))
        /\ Len(evalResults[1].notes) = 1

\* C16, amended: a map object bound to the variable of a list_close check is
\* materialized, the verdict is that of the eager list of the same elements, and
\* the notes gain two advisory entries: the note that the learner should convert
\* the map to a list, then the warning that the result was converted for checking.
C16_LazySequence ==
    IsMapChecked =>
        /\ SameAsEagerList(evalResults[1], Step(1))
        /\ evalResults[1].notes = <<Note("map_note", ""), Note("map_converted", "")>>
        /\ evalResults[1].lv["result"].items = <<>>

\* C16 witness: map(...) yielding 0.000012 and 1.0 against 0.00001 and 1.0 failed
\* on the tolerance, as the list does, with the two notes
C16_Witness ==
    /\ Len(evalResults) = 1
    /\ IsMapChecked
    /\ Got = MapVal(<<Num(12), Num(1000000)>>, FALSE)
    /\ Wanted = <<Num(10), Num(1000000)>>
    /\ ~evalResults[1].ok
    /\ evalResults[1].message.kind = "tolerance"
    /\ Len(evalResults[1].notes) = 2

(* ----------------------- grading: runtime faults ---------------------- *)
\* the source is accepted by the lint and the strict analyzer
Accepted(c) ==
    /\ \A l \in 1..Len(c.lines) : c.lines[l] = "clean"
    /\ ~StrictlyRejected(c)
\* statement i is the first to raise: the ones before it print or assign, and it
\* divides by zero or appends to a name nothing has bound
FaultCategory(c, ex, i) ==
    IF \E j \in 1..(i - 1) : c.stmts[j].op \notin {"print", "assign"} THEN ""
    ELSE IF c.stmts[i].op = "raise" THEN "ZeroDivisionError"
    ELSE IF /\ c.stmts[i].op = "append"
            /\ c.stmts[i].var \notin DOMAIN ex.setup
            /\ \A j \in 1..(i - 1) : c.stmts[j].var # c.stmts[i].var
         THEN "NameError"
    ELSE ""
\* what the statements before statement i printed
RECURSIVE PrintedBefore(_, _)
PrintedBefore(c, i) ==
    IF i <= 1 THEN <<>>
    ELSE PrintedBefore(c, i - 1)
         \o (IF c.stmts[i - 1].op = "print" THEN c.stmts[i - 1].text \o <<"\n">> ELSE <<>>)

\* C17: a fault raised while the learner's code runs is caught: the call returns
\* status error, a message made of the fault's category name and its message, the
\* trace in details, and in stdout what the code printed before the fault; no
\* check is evaluated.
C17_RuntimeFaultCaught ==
    \A k \in 1..Len(gradeResults) : \A i \in 1..Len(code.stmts) :
        (Accepted(code) /\ FaultCategory(code, exercise, i) # "") =>
            /\ ~gradeResults[k].raised
            /\ gradeResults[k].status = "error"
            /\ gradeResults[k].message.kind = "runtime_fault"
            /\ gradeResults[k].message.var = FaultCategory(code, exercise, i)
            /\ gradeResults[k].details = "traceback"
            /\ gradeResults[k].stdout = PrintedBefore(code, i)
            /\ gradeResults[k].checksRun = 0

\* C17 witness: the code printed "3" and then divided by zero, in an exercise
\* that has checks
C17_Witness ==
    /\ Len(gradeResults) = 1
    /\ Len(code.stmts) = 2
    /\ code.stmts[1].op = "print" /\ code.stmts[2].op = "raise"
    /\ exercise.checks # <<>>
    /\ gradeResults[1].status = "error"
    /\ gradeResults[1].message.var = "ZeroDivisionError"
    /\ gradeResults[1].stdout = <<"3", "\n">>
    /\ gradeResults[1].checksRun = 0

IsBlankChar(ch) == ch \in {"\t", " "}
\* a tab among the blanks the line starts with
TabInIndentation(text) ==
    \E i \in 1..Len(text) : text[i] = "\t" /\ \A j \in 1..i : IsBlankChar(text[j])
EndsInWhitespace(text) == text # <<>> /\ IsBlankChar(text[Len(text)])
Offends(line) == TabInIndentation(LineText(line)) \/ EndsInWhitespace(LineText(line))
OffendingLines(c) == {l \in 1..Len(c.lines) : Offends(c.lines[l])}

\* C19: a source with a tab in the indentation of a line or whitespace at the end
\* of a line is rejected on its first such line, with that line's 1-based number
\* and the column of the tab or of the last character, and it is not parsed, not
\* analyzed and not executed, whether or not it has a syntax error or a banned
\* construct as well.
C19_LintComesFirst ==
    \A k \in 1..Len(gradeResults) :
        OffendingLines(code) # {} =>
            /\ ~gradeResults[k].raised
            /\ gradeResults[k].status = "fail"
            /\ gradeResults[k].lineno = FirstOf(OffendingLines(code))
            /\ gradeResults[k].message.kind =
                    (IF TabInIndentation(LineText(code.lines[gradeResults[k].lineno]))
                     THEN "tabs" ELSE "trailing_spaces")
            /\ gradeResults[k].offset \in 1..Len(LineText(code.lines[gradeResults[k].lineno]))
            /\ IsBlankChar(LineText(code.lines[gradeResults[k].lineno])[gradeResults[k].offset])
            /\ gradeResults[k].stages = <<>>
            /\ gradeResults[k].stdout = <<>>
            /\ NeverRan(gradeResults[k])

\* C19 witness: a source that has a tab in the indentation of its second line, and
\* an import, was rejected on line 2, column 2, and not analyzed
C19_Witness ==
    /\ Len(gradeResults) = 1
    /\ code.lines = <<"inner_tab", "tab_trail">>
    /\ code.parse = "ok"
    /\ \E i \in 1..Len(code.stmts) : code.stmts[i].op = "import"
    /\ gradeResults[1].status = "fail"
    /\ gradeResults[1].message.kind = "tabs"
    /\ gradeResults[1].lineno = 2 /\ gradeResults[1].offset = 2

(* ------------------- process executor: coarse policy ------------------ *)
\* the source names the module by a dotted path that starts with root, in an
\* import, a from-import or an __import__("...") call
RefersTo(c, root) ==
    \E i \in 1..Len(c.nodes) :
        /\ c.nodes[i].kind \in {"import", "from", "dyn_const"}
        /\ \E j \in 1..Len(c.nodes[i].names) :
            c.nodes[i].names[j] # <<>> /\ c.nodes[i].names[j][1] = root
HostRuns == run.host.sandbox_ok /\ run.host.spawn_ok

NodesOf(t) == walk(<<t>>)
IsBannedCall(node) ==
    /\ node.kind = "Call"
    /\ node.kids[1].kind = "Name" /\ node.kids[1].name \in banned_calls
Categories(nodes) ==
    {"import" : i \in {j \in 1..Len(nodes) : nodes[j].kind \in {"Import", "ImportFrom"}}}
    \cup {"global" : i \in {j \in 1..Len(nodes) : nodes[j].kind \in {"Global", "Nonlocal"}}}
    \cup {"dunder_name" :
            i \in {j \in 1..Len(nodes) :
                     nodes[j].kind \notin {"Attribute"} /\ HasDunder(nodes[j].name)}}
    \cup {"dunder_attr" :
            i \in {j \in 1..Len(nodes) :
                     nodes[j].kind = "Attribute" /\ HasDunder(nodes[j].name)}}
    \cup {"banned_call" : i \in {j \in 1..Len(nodes) : IsBannedCall(nodes[j])}}
StrictVerdict(nodes, a) ==
    Categories(nodes) # {} => a.verdict = "violation" /\ a.rule \in Categories(nodes)

\* C21: every source that parses and holds, at any depth of its tree, an import
\* statement, a global or nonlocal statement, an identifier or attribute with
\* "__" in it, or a call of a banned primitive, is rejected by the strict
\* analyzer, and the violation reported is the category of a construct the
\* source does hold.
C21_StrictPolicy ==
    analysis # <<>> => StrictVerdict(NodesOf(tree), analysis[1])

(* -------------------------- VscodeApi: claims ------------------------- *)
Validated(r) == Cardinality({i \in 1..Len(r.calls) : r.calls[i] = "validate_user_code"})

\* C22: run_code never calls validate_user_code, whatever run_user_code
\* returned; check_code calls it exactly once when the run's status is ok, and
\* then returns the validator's status, and does not call it otherwise, and
\* then returns the executor's status and message as they are.
C22_ValidatorOnlyOnCheck ==
    \A i \in 1..Len(apiReplies) :
        LET r == apiReplies[i] IN
        /\ r.op = "run_code" => Validated(r) = 0
        /\ r.op = "check_code" /\ r.run.status = "ok" =>
              /\ Validated(r) = 1
              /\ ~r.raised => r.payload.status = r.validation.status
        /\ r.op = "check_code" /\ r.run.status # "ok" =>
              /\ Validated(r) = 0
              /\ ~r.raised => /\ r.payload.status = r.run.status
                              /\ r.payload.message = r.run.message

\* C22 witness: check_code on a run that ended ok returned the validator's fail
C22_Witness ==
    \E i \in 1..Len(apiReplies) :
        /\ apiReplies[i].op = "check_code" /\ apiReplies[i].run.status = "ok"
        /\ apiReplies[i].validation.status = "fail"
        /\ apiReplies[i].payload.status = "fail"
        /\ apiReplies[i].calls = <<"run_user_code", "validate_user_code">>

ExamSpellings == {"exam", "EXAM", "Exam"}
FinalStatus(r) == IF Validated(r) > 0 THEN r.validation.status ELSE r.run.status
FinalMessage(r) == IF Validated(r) > 0 THEN r.validation.message ELSE r.run.message

\* C23: in exam mode run_code and check_code return an empty hint whatever the
\* outcome (ok, error, timeout, blocked, fail), with the status and the message
\* passed through; a hint that is not empty comes from a call in study mode.
C23_ExamNoHint ==
    \A i \in 1..Len(apiReplies) :
        LET r == apiReplies[i] IN
        ~r.raised =>
            /\ r.mode \in ExamSpellings =>
                  /\ r.payload.hint = ""
                  /\ r.payload.status = FinalStatus(r)
                  /\ r.payload.message = FinalMessage(r)
            /\ r.payload.hint # "" => r.mode \notin ExamSpellings

\* C23 witness: an exam call whose code loops and timed out came back without hint
C23_Witness ==
    \E i \in 1..Len(apiReplies) :
        /\ apiReplies[i].mode = "EXAM"
        /\ apiReplies[i].run.status = "timeout"
        /\ "while true" \in apiReplies[i].code
        /\ apiReplies[i].payload.status = "timeout"
        /\ apiReplies[i].payload.hint = ""

(* --------------- process executor: the interpreter used --------------- *)
\* C24: when the application runs frozen, the command run_user_code starts the
\* learner's code with is the system Python found on PATH, never the frozen
\* application's own executable (sys.executable).
C24_FrozenUsesSystemPython ==
    (Called /\ run.host.frozen /\ runResult.argv # <<>>) =>
        /\ runResult.argv[1] = "python_on_path"
        /\ runResult.argv[1] # sys_executable(run.host)

(* --------------------------- progress: claims ------------------------- *)
\* C25: in every progress state reached by record_attempt and
\* reset_module_progress calls, allowed_modules marks a module as allowed only
\* if every exercise of every module before it in the catalog is completed; the
\* first module is always allowed.
C25_MandatoryProgression ==
    LET allowed == allowed_modules(catalog, progress) IN
    \A i \in 1..Len(catalog) :
        /\ i = 1 => allowed[catalog[i].id]
        /\ allowed[catalog[i].id] =>
              \A j \in 1..(i - 1) : module_completed(progress, catalog[j])

\* C26: after any sequence of record_attempt calls, the completed flag of an
\* exercise is the outcome of the attempt recorded last for it (a failure
\* recorded after a success makes it not completed again), and its attempts
\* counter is the number of attempts recorded since its record was made.
C26_CompletedIsLastAttempt ==
    /\ DOMAIN recorded = DOMAIN progress.exercises
    /\ \A key \in DOMAIN recorded :
          /\ progress.exercises[key].attempts = Len(recorded[key])
          /\ is_exercise_completed(progress, key[1], key[2], key[3])
                = recorded[key][Len(recorded[key])]

\* C26 witness: an exercise passed and then failed is not completed, with two attempts
C26_Witness ==
    \E key \in DOMAIN recorded :
        /\ recorded[key] = <<TRUE, FALSE>>
        /\ progress.exercises[key].attempts = 2
        /\ ~is_exercise_completed(progress, key[1], key[2], key[3])

(* ------------------------------ CLI: claims --------------------------- *)
\* the modules up to i are all marked as allowed
LeadingAllowed(i) ==
    \A j \in 1..i : allowed_modules(catalog, progress)[catalog[j].id]
Completed(idx) ==
    is_exercise_completed(progress, PositionAt(catalog, idx)[1], PositionAt(catalog, idx)[2],
                          PositionAt(catalog, idx)[3])
Selection == current_or_pending(catalog, progress)

\* C28: whatever the progress and the current pointer, the exercise
\* _current_or_pending selects is not completed and is in a module that
\* allowed_modules marks as allowed; it returns None only when the leading run
\* of allowed modules holds no exercise that is not completed.
C28_SelectsPendingAllowed ==
    /\ Selection.kind \in {"position", "None"}
    /\ Selection.kind = "position" =>
          \E idx \in Indices(catalog) :
              /\ PositionAt(catalog, idx) = Selection.pos
              /\ ~Completed(idx)
              /\ allowed_modules(catalog, progress)[catalog[idx[1]].id]
    /\ Selection.kind = "None" =>
          \A idx \in Indices(catalog) : LeadingAllowed(idx[1]) => Completed(idx)

\* C28 witness: the pointer is on a completed exercise of the first of several
\* modules, the second module is closed, and the first module's other exercise
\* is selected
C28_Witness ==
    /\ Len(catalog) > 1
    /\ progress.current = Position(<<1>>, <<1, 1>>, <<1, 1, 1>>)
    /\ is_exercise_completed(progress, <<1>>, <<1, 1>>, <<1, 1, 1>>)
    /\ ~allowed_modules(catalog, progress)[<<2>>]
    /\ Selection.kind = "position"
    /\ Selection.pos # get_current_position(progress)

(* -------------------------- navigation: claims ------------------------ *)
\* the i-th exercise of the catalog, in the order of modules, lessons and exercises
CatalogOrder(i) ==
    PositionAt(catalog,
               CHOOSE idx \in Indices(catalog) :
                   Cardinality({y \in Indices(catalog) : IndexBefore(y, idx)}) = i)

\* C27: in a catalog with unique ids, a lesson in every module and an exercise
\* in every lesson, next_position applied again and again from the first
\* exercise of the first module goes through every exercise of the catalog once,
\* in catalog order, and then returns None; no position it returns is outside
\* the catalog.
C27_VisitsAllInOrder ==
    /\ position.kind \in {"position", "None"}
    /\ Len(visited) <= Cardinality(Indices(catalog))
    /\ \A i \in 1..Len(visited) : visited[i] = CatalogOrder(i)
    /\ position.kind = "position" => position.pos = visited[Len(visited)]
    /\ position.kind = "None" => Len(visited) = Cardinality(Indices(catalog))

\* C27 witness: the walk over a catalog of several modules, with a module of
\* several lessons of several exercises, has come to its end
C27_Witness ==
    /\ position.kind = "None"
    /\ Len(catalog) > 1
    /\ \E i \in 1..Len(catalog) :
          Len(catalog[i].lessons) > 1 /\ Len(catalog[i].lessons[1].exercises) > 1
    /\ Len(visited) = Cardinality(Indices(catalog))

(* ------------------------- LSP client: claims -------------------------- *)
Ended(rid) == requests[rid].state # "waiting"
DocumentMethods == {"textDocument/didOpen", "textDocument/didChange"}
NeedOpenDocument ==
    {"textDocument/didChange", "textDocument/completion", "textDocument/hover"}

\* C29: every _request gets an id no other request has; a request that has
\* ended returned the response carrying its id or raised RuntimeError; the id
\* of an ended request is not in the pending table; and a reader that met the
\* end of the server's output failed every request then pending.
C29_RequestLifecycle ==
    /\ \A rid \in DOMAIN requests :
        /\ requests[rid].issued = 1
        /\ requests[rid].state = "returned" => requests[rid].id = rid
        /\ requests[rid].state = "raised" => requests[rid].with = "RuntimeError"
        /\ Ended(rid) => rid \notin lsp.pending
    /\ \A r \in 1..Len(readers) :
        \A rid \in readers[r].failed : waiters[rid].kind = "error"

\* C30: in what each server process has received, a didOpen comes before any
\* didChange, completion or hover, and the versions of the document
\* notifications are strictly increasing.
C30_DidOpenFirst ==
    \A g \in 1..Len(servers) :
        LET inbox == servers[g].inbox IN
        /\ \A i \in 1..Len(inbox) :
            inbox[i].method \in NeedOpenDocument =>
                \E j \in 1..(i - 1) : inbox[j].method = "textDocument/didOpen"
        /\ \A i, j \in 1..Len(inbox) :
            (i < j /\ inbox[i].method \in DocumentMethods
                   /\ inbox[j].method \in DocumentMethods) =>
                inbox[i].version < inbox[j].version

====
